---- MODULE Spec2Model ----
(***************************************************************************)
(* Model of the Local Processing Unit (neurokernel/LPU/LPU.py): the        *)
(* construction of the packed index space and of the delay-buffer depths,  *)
(* the circular delay buffer, the external-input feeder and the per-tick   *)
(* step engine (pre_run, run_step, post_run).                              *)
(*                                                                         *)
(* Conventions.  Python lists and numpy arrays are TLA+ sequences; an      *)
(* array position p of the code (0-based) is element p+1 of the sequence.  *)
(* Time is in milliseconds: dt is the step in ms, so that the code's       *)
(* delay*1e-3/dt (delay in ms, dt in s) is delay/dt here.                  *)
(* A neuron or synapse state computed in tick t carries the value t (the   *)
(* model mathematics is opaque); 0 is the initial state.  Frame k of the   *)
(* external-input source carries 10*(k+1)+j in channel j.                  *)
(***************************************************************************)
EXTENDS Integers, Sequences, FiniteSets, TLC

\* ------------------------------------------------------------------ bounds
MaxTicks == 5       \* run_step calls per run
MaxId == 2          \* neuron IDs are drawn from 0..MaxId
MaxDelay == 2       \* synaptic delays are drawn from 0..MaxDelay (ms)
MaxFrames == 5      \* frames in the external-input source
MaxWindow == 3      \* values of _one_time_import

\* --------------------------------------------------------- program names
PORT_IN_GPOT == "port_in_gpot"
PORT_IN_SPK == "port_in_spk"

\* Names of the neuron / synapse classes found by _load_neurons and
\* _load_synapses (the classes themselves live outside LPU.py).
neuron_names == {"MorrisLecar", "LeakyIAF"}
synapse_names == {"AlphaSynapse"}

\* ------------------------------------------------------- sequence helpers
Range(s) == {s[i] : i \in 1..Len(s)}

RECURSIVE SumSeq(_)
SumSeq(s) == IF s = <<>> THEN 0 ELSE Head(s) + SumSeq(Tail(s))

\* sum(list_of_lists, [])
RECURSIVE Concat(_)
Concat(ss) == IF ss = <<>> THEN <<>> ELSE Head(ss) \o Concat(Tail(ss))

\* numpy boolean-mask indexing a[mask]
RECURSIVE Mask(_, _)
Mask(a, mask) ==
    IF a = <<>> THEN <<>>
    ELSE (IF Head(mask) THEN <<Head(a)>> ELSE <<>>) \o Mask(Tail(a), Tail(mask))

Not(mask) == [i \in 1..Len(mask) |-> ~mask[i]]

MaxOf(S) == CHOOSE x \in S : \A y \in S : y <= x
MinOf(S) == CHOOSE x \in S : \A y \in S : x <= y

\* ascending list of a finite set of integers (neurons.sort(cmp=neuron_cmp))
RECURSIVE SortedSeq(_)
SortedSeq(S) == IF S = {} THEN <<>> ELSE <<MinOf(S)>> \o SortedSeq(S \ {MinOf(S)})

Reverse(s) == [i \in 1..Len(s) |-> s[Len(s) + 1 - i]]

Zeros(n) == [i \in 1..n |-> 0]

\* int(round(a/b)) for a >= 0, b > 0 (Python 2 rounds halves away from zero)
RoundDiv(a, b) == (2 * a + b) \div (2 * b)

\* ------------------------------------------------- compilation: neurons
\* All of these take n_list, the list of (model, attributes) pairs.

n_id(nl) == Concat([i \in 1..Len(nl) |-> nl[i].id])
n_is_spk(nl) == Concat([i \in 1..Len(nl) |-> nl[i].spiking])
n_is_pub(nl) == Concat([i \in 1..Len(nl) |-> nl[i].public])
n_has_in(nl) == Concat([i \in 1..Len(nl) |-> nl[i].extern])

n_model_is_spk(nl) == [i \in 1..Len(nl) |-> nl[i].spiking[1]]
n_model_num(nl) == [i \in 1..Len(nl) |-> Len(nl[i].id)]

num_gpot_neurons(nl) ==
    [i \in 1..Len(nl) |-> IF n_model_is_spk(nl)[i] THEN 0 ELSE n_model_num(nl)[i]]
num_spike_neurons(nl) ==
    [i \in 1..Len(nl) |-> IF n_model_is_spk(nl)[i] THEN n_model_num(nl)[i] ELSE 0]
total_num_gpot_neurons(nl) == SumSeq(num_gpot_neurons(nl))
total_num_spike_neurons(nl) == SumSeq(num_spike_neurons(nl))

gpot_idx(nl) == Mask(n_id(nl), Not(n_is_spk(nl)))
spike_idx(nl) == Mask(n_id(nl), n_is_spk(nl))

\* for i, id in enumerate(idx): d[id] = i   (a later entry overwrites)
EnumDict(idx) ==
    [x \in Range(idx) |->
        (CHOOSE i \in 1..Len(idx) : idx[i] = x /\ \A j \in (i+1)..Len(idx) : idx[j] # x) - 1]

\* (variant of order_dict: positions in n_id, graded and spiking mixed)
order_dict_unpartitioned(nl) == EnumDict(n_id(nl))
order_dict(nl) == EnumDict(gpot_idx(nl) \o spike_idx(nl))
gpot_order_dict(nl) == EnumDict(gpot_idx(nl))
spike_order_dict(nl) == EnumDict(spike_idx(nl))

order(nl, ind) == order_dict(nl)[ind]
gpot_order(nl, ind) == gpot_order_dict(nl)[ind]
spike_order(nl, ind) == spike_order_dict(nl)[ind]

spike_shift(nl) == total_num_gpot_neurons(nl)

\* np.concatenate(([0], np.cumsum(num))): entry i (0-based) is element i+1
CumSum0(num) == [i \in 1..(Len(num) + 1) |-> SumSeq(SubSeq(num, 1, i - 1))]
idx_start_gpot(nl) == CumSum0(num_gpot_neurons(nl))
idx_start_spike(nl) == CumSum0(num_spike_neurons(nl))

input_neuron_list(nl) ==
    LET in_id == SortedSeq(Range(Mask(n_id(nl), n_has_in(nl))))
    IN  [i \in 1..Len(in_id) |-> order(nl, in_id[i])]
num_input(nl) == Len(input_neuron_list(nl))

PubMask(n, spk) == [k \in 1..Len(n.id) |-> n.public[k] /\ (n.spiking[k] = spk)]
out_ids(nl, spk) == Concat([i \in 1..Len(nl) |-> Mask(nl[i].id, PubMask(nl[i], spk))])
out_ports_ids_gpot(nl) ==
    [i \in 1..Len(out_ids(nl, FALSE)) |-> gpot_order(nl, out_ids(nl, FALSE)[i])]
out_ports_ids_spk(nl) ==
    [i \in 1..Len(out_ids(nl, TRUE)) |-> spike_order(nl, out_ids(nl, TRUE)[i])]
num_public_gpot(nl) == Len(out_ports_ids_gpot(nl))
num_public_spike(nl) == Len(out_ports_ids_spk(nl))

ModelIndex(nl, name) ==
    IF \E i \in 1..Len(nl) : nl[i].name = name
    THEN CHOOSE i \in 1..Len(nl) : nl[i].name = name
    ELSE 0
ports_in_gpot_mem_ind(nl) == ModelIndex(nl, PORT_IN_GPOT)
ports_in_spk_mem_ind(nl) == ModelIndex(nl, PORT_IN_SPK)
num_in_ports_gpot(nl) ==
    IF ports_in_gpot_mem_ind(nl) = 0 THEN 0 ELSE Len(nl[ports_in_gpot_mem_ind(nl)].id)
num_in_ports_spk(nl) ==
    IF ports_in_spk_mem_ind(nl) = 0 THEN 0 ELSE Len(nl[ports_in_spk_mem_ind(nl)].id)

\* k-th smallest element's position: np.argsort(a) for distinct entries
ArgSort(a) ==
    [k \in 1..Len(a) |->
        (CHOOSE i \in 1..Len(a) : Cardinality({j \in 1..Len(a) : a[j] < a[i]}) = k - 1) - 1]
\* (variant of gpot_order_l: the packed order itself)
gpot_order_l_packed(nl) == [k \in 1..Len(gpot_idx(nl)) |-> k - 1]
gpot_order_l(nl) == ArgSort(gpot_idx(nl))
spike_order_l(nl) == ArgSort(spike_idx(nl))

\* ------------------------------------------------ compilation: synapses
\* s_list is the list of (model, attributes) pairs; class 0: spike->spike,
\* 1: spike->graded, 2: graded->spike, 3: graded->graded.

num_synapses(sl) == [i \in 1..Len(sl) |-> Len(sl[i].id)]
total_synapses(sl) == SumSeq(num_synapses(sl))
idx_start_synapse(sl) == CumSum0(num_synapses(sl))

\* s['pre'] after line 529: the packed position in the presynaptic kind
s_pre(nl, s) ==
    [k \in 1..Len(s.pre) |->
        IF s.class[1] <= 1 THEN spike_order(nl, s.pre[k]) ELSE gpot_order(nl, s.pre[k])]

\* np.where(s['conductance'] == c)[0]
CondIdx(s, c) == {k \in 1..Len(s.id) : s.conductance[k] = c}

\* the running maximum kept by the loop over s_list (lines 550-573): the
\* delays (ms) of the synapses with conductance flag c, in models with 'delay'
DelayMax(sl, c) ==
    MaxOf({0} \cup {sl[i].delay[k] : <<i, k>> \in
              {p \in (1..Len(sl)) \X (1..MaxOf({0} \cup Range(num_synapses(sl)))) :
                  /\ p[2] \in CondIdx(sl[p[1]], c)
                  /\ sl[p[1]].has_delay}})

gpot_delay_steps(sl, dt) == RoundDiv(DelayMax(sl, TRUE), dt) + 1
spike_delay_steps(sl, dt) == RoundDiv(DelayMax(sl, FALSE), dt) + 1

\* delay of synapse k of model s in steps, as the synapse model uses it
delay_steps(s, k, dt) == IF s.has_delay THEN RoundDiv(s.delay[k], dt) ELSE 0

\* ------------------------------------------------------ object lists
\* self.neurons: one entry per non-port model of n_list, None (obj = FALSE)
\* when the model name names no loaded class.
RECURSIVE Objects(_, _, _, _)
Objects(list, i, skip, known) ==
    IF i > Len(list) THEN <<>>
    ELSE (IF list[i].name \in skip THEN <<>>
          ELSE <<[i |-> i, obj |-> list[i].name \in known]>>)
         \o Objects(list, i + 1, skip, known)

neurons(nl) == Objects(nl, 1, {PORT_IN_GPOT, PORT_IN_SPK}, neuron_names)
synapses(sl) == Objects(sl, 1, {"pass"}, synapse_names)

\* ------------------------------------------------------------- inputs
\* The constructor's arguments and the files it names:
\*   n_list, s_list   the compiled graph (n_dict.items(), s_dict.items())
\*   dt               step (ms)
\*   input_file       whether an external-input file is attached
\*   frames           number of frames of that file (0 without a file)
\*   one_time_import  window of the external-input reader
\*   output, debug    whether output_file is given, the debug flag

DefaultImport == 10

IsSpikingModel(name) == name \in {"LeakyIAF", PORT_IN_SPK, "UnknownSpk"}
IsPortModel(name) == name \in {PORT_IN_GPOT, PORT_IN_SPK}

NModel(name, ids, pub, ext) ==
    [name |-> name,
     id |-> ids,
     spiking |-> [k \in 1..Len(ids) |-> IsSpikingModel(name)],
     public |-> [k \in 1..Len(ids) |-> pub /\ ~IsPortModel(name)],
     extern |-> [k \in 1..Len(ids) |-> ext /\ ~IsPortModel(name)]]

NonEmptyModel(n) == n.id # <<>>

\* the models named in names, each with the IDs that f assigns to it
NList(f, names, pub, ext) ==
    SelectSeq([i \in 1..Len(names) |->
                  NModel(names[i], SortedSeq({x \in DOMAIN f : f[x] = names[i]}), pub, ext)],
              NonEmptyModel)

SModel(name, cls, ids, pre, conds, hasd, delays) ==
    [name |-> name,
     class |-> [k \in 1..Len(ids) |-> cls],
     id |-> ids,
     pre |-> [k \in 1..Len(ids) |-> pre],
     conductance |-> conds,
     has_delay |-> hasd,
     delay |-> delays]

Args(nl, sl, dt, N, W, out, dbg) ==
    [n_list |-> nl, s_list |-> sl, dt |-> dt, input_file |-> N > 0, frames |-> N,
     one_time_import |-> W, output |-> out, debug |-> dbg]

ModelOrder == <<"MorrisLecar", "LeakyIAF", PORT_IN_GPOT, PORT_IN_SPK>>

\* any assignment of the IDs 0..MaxId to the four models (or to none), the
\* models in either order, every neuron public, no synapses
NeuronInputs ==
    {Args(IF rev THEN Reverse(NList(f, ModelOrder, TRUE, FALSE))
                 ELSE NList(f, ModelOrder, TRUE, FALSE),
          <<>>, 1, 0, DefaultImport, FALSE, FALSE) :
        f \in {g \in [0..MaxId -> Range(ModelOrder) \cup {"-"}] :
                   \E x \in 0..MaxId : g[x] # "-"},
        rev \in BOOLEAN}

\* one graded neuron (ID 0) and one spiking neuron (ID 1); the presynaptic
\* neuron of a synapse is the one its class names
TwoNeurons == <<NModel("MorrisLecar", <<0>>, FALSE, FALSE), NModel("LeakyIAF", <<1>>, FALSE, FALSE)>>
PreOf(cls) == IF cls <= 1 THEN 1 ELSE 0

One(cls, id, c, d) == SModel("AlphaSynapse", cls, <<id>>, PreOf(cls), <<c>>, TRUE, <<d>>)

SynapseLists ==
    {<<>>}
    \cup {<<One(cls, 0, c, d)>> : cls \in 0..3, c \in BOOLEAN, d \in 0..MaxDelay}
    \cup {<<One(x[1], 0, x[2], x[3]), One(y[1], 1, y[2], y[3])>> :
            x \in (0..3) \X BOOLEAN \X (0..MaxDelay),
            y \in (0..3) \X BOOLEAN \X (0..MaxDelay)}
    \cup {<<SModel("AlphaSynapse", cls, <<0, 1>>, PreOf(cls), <<c[1], c[2]>>, hd, <<d[1], d[2]>>)>> :
            cls \in 0..3, c \in BOOLEAN \X BOOLEAN, hd \in BOOLEAN,
            d \in (0..MaxDelay) \X (0..MaxDelay)}

SynapseInputs ==
    {Args(TwoNeurons, sl, dt, 0, DefaultImport, FALSE, FALSE) :
        sl \in SynapseLists, dt \in {1, 2}}

\* external input into the neurons flagged extern
ExternNeurons ==
    {<<NModel("MorrisLecar", <<0, 2>>, TRUE, TRUE), NModel("LeakyIAF", <<1>>, TRUE, FALSE)>>,
     <<NModel("LeakyIAF", <<1>>, FALSE, TRUE), NModel("MorrisLecar", <<0>>, FALSE, FALSE)>>}

FeederInputs ==
    {Args(nl, sl, 1, N, W, out, dbg) :
        nl \in ExternNeurons,
        sl \in {<<>>, <<One(0, 0, FALSE, 0)>>},
        N \in 1..MaxFrames, W \in 1..MaxWindow,
        out \in BOOLEAN, dbg \in BOOLEAN}

\* model names that name no loaded class, and the synapse model 'pass'
OddNeurons(ext) ==
    {TwoNeurons,
     <<NModel("Unknown", <<0>>, FALSE, ext), NModel("LeakyIAF", <<1>>, FALSE, FALSE)>>,
     <<NModel("MorrisLecar", <<0>>, FALSE, ext), NModel("UnknownSpk", <<1>>, FALSE, FALSE)>>}

OddSynapses ==
    {<<>>,
     <<SModel("pass", 3, <<0>>, 0, <<TRUE>>, TRUE, <<1>>)>>,
     <<SModel("Unknown", 3, <<0>>, 0, <<TRUE>>, TRUE, <<1>>)>>,
     <<One(3, 0, TRUE, 1), SModel("Unknown", 0, <<1>>, 1, <<FALSE>>, TRUE, <<0>>)>>}

OddInputs ==
    UNION {{Args(nl, sl, 1, N, 1, FALSE, FALSE) : nl \in OddNeurons(N > 0), sl \in OddSynapses} :
              N \in 0..1}

\* a unit with an input port, an external input, a delayed synapse, public
\* neurons and an output file
FullInputs ==
    {Args(<<NModel(PORT_IN_GPOT, <<2>>, FALSE, FALSE),
            NModel("MorrisLecar", <<0>>, TRUE, TRUE),
            NModel("LeakyIAF", <<1>>, TRUE, FALSE)>>,
          <<One(3, 0, TRUE, 1)>>, 1, 3, 2, TRUE, FALSE)}

\* units of one kind of neuron or of both, with or without a synapse, an
\* input file, an output file and the debug flag
StoreNeurons(ext) ==
    {<<NModel("MorrisLecar", <<0>>, FALSE, ext)>>,
     <<NModel("LeakyIAF", <<1>>, FALSE, ext)>>,
     <<NModel("LeakyIAF", <<1>>, FALSE, ext), NModel("MorrisLecar", <<0>>, FALSE, FALSE)>>}

StoreSynapses(nl) ==
    {<<>>, <<One(IF nl[1].spiking[1] THEN 0 ELSE 3, 0, TRUE, 0)>>}

StoreInputs ==
    UNION {{Args(nl, sl, 1, N, 1, out, dbg) :
               sl \in StoreSynapses(nl), out \in BOOLEAN, dbg \in BOOLEAN} :
           <<N, nl>> \in UNION {{<<N, nl>> : nl \in StoreNeurons(N > 0)} : N \in 0..1}}

Inputs ==
    NeuronInputs \cup SynapseInputs \cup FeederInputs \cup OddInputs \cup FullInputs
        \cup StoreInputs

\* -------------------------------------------------------------- state
VARIABLES
    args,    \* the constructor's arguments (fixed for the unit's lifetime)
    self,    \* the LPU object's mutable attributes
    obs,     \* observation of the run: tick count, calls made in this tick
    phase    \* "constructed", "running", "stopped" or "error"

vars == <<args, self, obs, phase>>

Ev(op, obj) == [op |-> op, obj |-> obj]

\* values other units write into this unit's input ports between ticks
PortValues == {-1, -2}
\* what a read past the end of the window array can return (a frame tag)
GarbageFrames == {0, -1}

\* channel j of the frame tagged f (f = k+1 for source frame k, 0 for a
\* zero frame, -1 for memory outside the window)
FrameVal(f, j) == IF f <= 0 THEN f ELSE 10 * f + j

\* input_h5file['/array'][a:b] for a source of N frames, as frame tags
Slice(a, b, N) ==
    LET hi == IF b < N THEN b ELSE N
    IN  [i \in 1..(IF hi > a THEN hi - a ELSE 0) |-> a + i]

\* ports_to_inds: the port array holds the input ports, then the outputs
sel_in_gpot_ids(nl) == [i \in 1..num_in_ports_gpot(nl) |-> i - 1]
sel_out_gpot_ids(nl) == [i \in 1..num_public_gpot(nl) |-> num_in_ports_gpot(nl) + i - 1]
sel_in_spk_ids(nl) == [i \in 1..num_in_ports_spk(nl) |-> i - 1]
sel_out_spk_ids(nl) == [i \in 1..num_public_spike(nl) |-> num_in_ports_spk(nl) + i - 1]

\* the object after __init__
SelfInit(a) ==
    [first_step |-> FALSE,
     input_eof |-> ~a.input_file,
     V |-> <<>>, spike_state |-> <<>>, synapse_state |-> <<>>,
     gpot_buffer |-> <<>>, gpot_current |-> 0,
     spike_buffer |-> <<>>, spike_current |-> 0,
     I_ext |-> <<>>, file_pointer |-> 0, frame_count |-> 0, frames_in_buffer |-> 0,
     pm_gpot |-> Zeros(num_public_gpot(a.n_list) + num_in_ports_gpot(a.n_list)),
     pm_spike |-> Zeros(num_public_spike(a.n_list) + num_in_ports_spk(a.n_list)),
     open_files |-> {}, closed_files |-> {},
     output_gpot |-> <<>>, output_spike |-> <<>>,
     gpot_buffer_file |-> <<>>, synapse_state_file |-> <<>>]

ObsInit(a) ==
    [tick |-> 0, trace |-> <<>>, err |-> "none",
     ext_calls |-> 0, refills |-> 0, buf_steps |-> 0,
     syn_read |-> [i \in 1..Len(a.s_list) |-> <<>>]]

Init ==
    /\ args \in Inputs
    /\ self = SelfInit(args)
    /\ obs = ObsInit(args)
    /\ phase = "constructed"

\* ------------------------------------------------------------ pre_run
\* CircularArray.__init__: a buffer exists only for a kind with neurons
CircularArrayInit(s, ng, gsteps, ns, ssteps) ==
    [s EXCEPT !.gpot_buffer = IF ng > 0 THEN [i \in 1..gsteps |-> s.V] ELSE <<>>,
              !.gpot_current = 0,
              !.spike_buffer = IF ns > 0 THEN [i \in 1..ssteps |-> Zeros(ns)] ELSE <<>>,
              !.spike_current = 0]

initialize_gpu_ds(s, a) ==
    LET len == total_synapses(a.s_list) + num_input(a.n_list)
    IN  [s EXCEPT !.synapse_state = Zeros(IF len > 1 THEN len ELSE 1),
                  !.V = Zeros(total_num_gpot_neurons(a.n_list)),
                  !.spike_state = Zeros(total_num_spike_neurons(a.n_list))]

OutputFiles(a) ==
    IF a.output
    THEN (IF total_num_gpot_neurons(a.n_list) > 0 THEN {"output_gpot_file"} ELSE {})
         \cup (IF total_num_spike_neurons(a.n_list) > 0 THEN {"output_spike_file"} ELSE {})
    ELSE {}

DebugFiles(a) ==
    IF a.debug
    THEN (IF total_num_gpot_neurons(a.n_list) > 0 THEN {"gpot_buffer_file"} ELSE {})
         \cup (IF total_synapses(a.s_list) + num_input(a.n_list) > 0
               THEN {"synapse_state_file"} ELSE {})
    ELSE {}

init_objects(s, a) ==
    LET b == CircularArrayInit(s, total_num_gpot_neurons(a.n_list),
                               gpot_delay_steps(a.s_list, a.dt),
                               total_num_spike_neurons(a.n_list),
                               spike_delay_steps(a.s_list, a.dt))
        f == IF a.input_file
             THEN [b EXCEPT !.I_ext = Slice(0, a.one_time_import, a.frames),
                            !.file_pointer = a.one_time_import,
                            !.frame_count = 0,
                            !.frames_in_buffer = a.one_time_import,
                            !.open_files = @ \cup {"input_h5file"}]
             ELSE b
    IN  [f EXCEPT !.open_files = @ \cup OutputFiles(a) \cup DebugFiles(a)]

pre_run ==
    /\ phase = "constructed"
    /\ self' = [init_objects(initialize_gpu_ds(self, args), args) EXCEPT !.first_step = TRUE]
    /\ phase' = "running"
    /\ UNCHANGED <<args, obs>>

\* ----------------------------------------------------------- run_step
\* The handler is a sequence of calls; each stage below takes and returns
\* m = [s |-> the object, o |-> the observation].  A stage after a raised
\* exception (m.o.err # "none") does nothing.

Log(m, e) == [m EXCEPT !.o.trace = Append(@, e)]
Ok(m) == m.o.err = "none"

\* (variant of set_inds: dest_shift ignored)
set_inds_unshifted(src, dest, inds, dest_shift) ==
    [p \in 1..Len(dest) |->
        IF (p - 1) \in 0..(Len(inds) - 1) THEN src[inds[p] + 1] ELSE dest[p]]
\* the kernel of set_inds: dest[i + dest_shift] = src[inds[i]], i < len(inds)
set_inds(src, dest, inds, dest_shift) ==
    [p \in 1..Len(dest) |->
        IF (p - 1 - dest_shift) \in 0..(Len(inds) - 1)
        THEN src[inds[p - dest_shift] + 1]
        ELSE dest[p]]

\* Module.run_step: the data other units sent is in the input ports
Module_run_step(m, a, pv) ==
    [m EXCEPT !.s.pm_gpot = [p \in 1..Len(@) |->
                                IF p <= num_in_ports_gpot(a.n_list) THEN pv ELSE @[p]],
              !.s.pm_spike = [p \in 1..Len(@) |->
                                IF p <= num_in_ports_spk(a.n_list) THEN pv ELSE @[p]]]

read_LPU_input(m, a) ==
    LET nl == a.n_list
        m0 == Log(m, Ev("read_LPU_input", 0))
        m1 == IF ports_in_gpot_mem_ind(nl) # 0
              THEN Log([m0 EXCEPT !.s.V =
                           set_inds(m0.s.pm_gpot, @, sel_in_gpot_ids(nl),
                                    idx_start_gpot(nl)[ports_in_gpot_mem_ind(nl)])],
                       Ev("set_inds", 0))
              ELSE m0
    IN  IF ports_in_spk_mem_ind(nl) # 0
        THEN Log([m1 EXCEPT !.s.spike_state =
                     set_inds(m1.s.pm_spike, @, sel_in_spk_ids(nl),
                              idx_start_spike(nl)[ports_in_spk_mem_ind(nl)])],
                 Ev("set_inds", 1))
        ELSE m1

\* (variant of CopyFrame: the frame copied to the start of synapse_state)
CopyFrameAtStart(m, a, g) ==
    LET s == m.s
        ni == num_input(a.n_list)
        f == IF s.frame_count < Len(s.I_ext) THEN s.I_ext[s.frame_count + 1] ELSE g
    IN  IF ~s.input_eof \/ s.frame_count < s.frames_in_buffer
        THEN Log([m EXCEPT !.s.synapse_state =
                      [p \in 1..Len(@) |->
                          IF (p - 1) \in 0..(ni - 1) THEN FrameVal(f, p - 1) ELSE @[p]],
                           !.s.frame_count = @ + 1],
                 Ev("memcpy_ext", s.frame_count))
        ELSE Log(m, Ev("log_eof", 0))

\* (variant of CopyFrame: the cursor test off by one)
CopyFrameOffByOne(m, a, g) ==
    LET s == m.s
        ts == total_synapses(a.s_list)
        ni == num_input(a.n_list)
        f == IF s.frame_count < Len(s.I_ext) THEN s.I_ext[s.frame_count + 1] ELSE g
    IN  IF ~s.input_eof \/ s.frame_count <= s.frames_in_buffer
        THEN Log([m EXCEPT !.s.synapse_state =
                      [p \in 1..Len(@) |->
                          IF (p - 1 - ts) \in 0..(ni - 1) THEN FrameVal(f, p - 1 - ts) ELSE @[p]],
                           !.s.frame_count = @ + 1],
                 Ev("memcpy_ext", s.frame_count))
        ELSE Log(m, Ev("log_eof", 0))

\* the first half of _read_external_input: copy the frame at the cursor
\* into the input segment of synapse_state, or log the end of the file.
\* g is what the copy reads when the cursor is past the window array.
CopyFrame(m, a, g) ==
    LET s == m.s
        ts == total_synapses(a.s_list)
        ni == num_input(a.n_list)
        f == IF s.frame_count < Len(s.I_ext) THEN s.I_ext[s.frame_count + 1] ELSE g
    IN  IF ~s.input_eof \/ s.frame_count < s.frames_in_buffer
        THEN Log([m EXCEPT !.s.synapse_state =
                      [p \in 1..Len(@) |->
                          IF (p - 1 - ts) \in 0..(ni - 1) THEN FrameVal(f, p - 1 - ts) ELSE @[p]],
                           !.s.frame_count = @ + 1],
                 Ev("memcpy_ext", s.frame_count))
        ELSE Log(m, Ev("log_eof", 0))

\* (variant of Refill: replenish only once the cursor is past the window)
RefillLate(m, a, raises) ==
    LET s == m.s
        W == a.one_time_import
    IN  IF s.frame_count > W /\ ~s.input_eof
        THEN [Log(m, Ev("refill", 0)) EXCEPT !.s.frame_count = 0, !.o.refills = @ + 1]
        ELSE m

\* the second half: replenish the window from the file.  raises tells
\* whether I_ext.set rejects an array of another length than the window's.
Refill(m, a, raises) ==
    LET s == m.s
        W == a.one_time_import
        input_ld == a.frames
        h_ext == IF input_ld - s.file_pointer < W
                 THEN Slice(s.file_pointer, input_ld, input_ld)
                 ELSE Slice(s.file_pointer, s.file_pointer + W, input_ld)
        padded == h_ext \o Zeros(W - Len(h_ext))
        s1 == IF Len(h_ext) = Len(s.I_ext)
              THEN [s EXCEPT !.I_ext = h_ext, !.file_pointer = @ + W, !.frame_count = 0]
              ELSE [s EXCEPT !.frames_in_buffer = Len(h_ext),
                             !.I_ext = SubSeq(padded, 1, Len(@)),
                             !.file_pointer = input_ld]
        s2 == IF s1.file_pointer = input_ld THEN [s1 EXCEPT !.input_eof = TRUE] ELSE s1
    IN  IF s.frame_count >= W /\ ~s.input_eof
        THEN IF Len(h_ext) # Len(s.I_ext) /\ Len(padded) # Len(s.I_ext) /\ raises
             THEN [Log(m, Ev("raise", 0)) EXCEPT !.s.frames_in_buffer = Len(h_ext),
                                                !.o.err = "I_ext.set"]
             ELSE [Log(m, Ev("refill", Len(h_ext))) EXCEPT !.s = s2, !.o.refills = @ + 1]
        ELSE m

read_external_input(m, a, g, raises) ==
    LET m0 == [Log(m, Ev("read_external_input", 0)) EXCEPT !.o.ext_calls = @ + 1]
    IN  Refill(CopyFrame(m0, a, g), a, raises)

\* the block of model i (1-based position in the list) in a packed array
Block(start, num, i) == (start[i] + 1)..(start[i] + num[i])
Stamp(arr, blk, t) == [p \in 1..Len(arr) |-> IF p \in blk THEN t ELSE arr[p]]

\* neuron.update_I(...); neuron.eval(): the model writes its block of V or
\* of spike_state
NeuronUpdate(m, a, i) ==
    LET nl == a.n_list
        m1 == Log(Log(m, Ev("update_I", i)), Ev("eval", i))
    IN  IF nl[i].spiking[1]
        THEN [m1 EXCEPT !.s.spike_state =
                 Stamp(@, Block(idx_start_spike(nl), num_spike_neurons(nl), i), m.o.tick)]
        ELSE [m1 EXCEPT !.s.V =
                 Stamp(@, Block(idx_start_gpot(nl), num_gpot_neurons(nl), i), m.o.tick)]

\* for i, neuron in enumerate(self.neurons): ...   (None has no update_I)
RECURSIVE EvalNeurons(_, _, _, _)
EvalNeurons(m, a, list, k) ==
    IF k > Len(list) \/ ~Ok(m) THEN m
    ELSE IF ~list[k].obj
         THEN [Log(m, Ev("raise", list[k].i)) EXCEPT !.o.err = "neuron is None"]
         ELSE EvalNeurons(NeuronUpdate(m, a, list[k].i), a, list, k + 1)

update_buffer(m, a) ==
    IF ~Ok(m) THEN m
    ELSE LET s == m.s
             g == IF total_num_gpot_neurons(a.n_list) > 0
                  THEN [s EXCEPT !.gpot_buffer[s.gpot_current + 1] = s.V]
                  ELSE s
             k == IF total_num_spike_neurons(a.n_list) > 0
                  THEN [g EXCEPT !.spike_buffer[s.spike_current + 1] = s.spike_state]
                  ELSE g
         IN  Log([m EXCEPT !.s = k], Ev("update_buffer", 0))

\* what a synapse model with delay d reads for presynaptic position pre:
\* the slot (current - d) mod depth of the buffer of the presynaptic kind
BufRead(s, spk, d, pre) ==
    IF spk
    THEN s.spike_buffer[((s.spike_current - d) % Len(s.spike_buffer)) + 1][pre + 1]
    ELSE s.gpot_buffer[((s.gpot_current - d) % Len(s.gpot_buffer)) + 1][pre + 1]

\* synapse.update_state(self.buffer): the model reads the delayed
\* presynaptic states and writes its block of synapse_state
SynapseUpdate(m, a, i) ==
    LET sm == a.s_list[i]
        pre == s_pre(a.n_list, sm)
        rd == [k \in 1..Len(sm.id) |->
                  BufRead(m.s, sm.class[1] <= 1, delay_steps(sm, k, a.dt), pre[k])]
    IN  [Log(m, Ev("update_state", i)) EXCEPT
            !.s.synapse_state =
                Stamp(@, Block(idx_start_synapse(a.s_list), num_synapses(a.s_list), i), m.o.tick),
            !.o.syn_read[i] = rd]

RECURSIVE EvalSynapses(_, _, _, _)
EvalSynapses(m, a, list, k) ==
    IF k > Len(list) \/ ~Ok(m) THEN m
    ELSE IF ~list[k].obj
         THEN [Log(m, Ev("raise", list[k].i)) EXCEPT !.o.err = "synapse is None"]
         ELSE EvalSynapses(SynapseUpdate(m, a, list[k].i), a, list, k + 1)

\* CircularArray.step for one cursor
\* (variant of StepCursor: the wraparound test with > for >=)
StepCursorLateWrap(current, delay_steps_) ==
    IF current + 1 > delay_steps_ THEN 0 ELSE current + 1
StepCursor(current, delay_steps_) ==
    IF current + 1 >= delay_steps_ THEN 0 ELSE current + 1

CircularArray_step(m) ==
    IF ~Ok(m) THEN m
    ELSE LET s == m.s
         IN  [Log(m, Ev("buffer.step", 0)) EXCEPT
                 !.s.gpot_current =
                     IF Len(s.V) > 0 THEN StepCursor(@, Len(s.gpot_buffer)) ELSE @,
                 !.s.spike_current =
                     IF Len(s.spike_state) > 0 THEN StepCursor(@, Len(s.spike_buffer)) ELSE @,
                 !.o.buf_steps = @ + 1]

\* (variant of EvalModels: the buffer written after the synapse updates)
EvalModelsBufferLast(m, a) ==
    CircularArray_step(update_buffer(
        EvalSynapses(EvalNeurons(m, a, neurons(a.n_list), 1), a, synapses(a.s_list), 1), a))

\* the branch "if not self.first_step" of run_step
EvalModels(m, a) ==
    CircularArray_step(
        EvalSynapses(update_buffer(EvalNeurons(m, a, neurons(a.n_list), 1), a),
                     a, synapses(a.s_list), 1))

ModelsOrFirst(m, a) ==
    IF ~Ok(m) THEN m
    ELSE IF ~m.s.first_step THEN EvalModels(m, a)
    ELSE [Log(m, Ev("first_step = False", 0)) EXCEPT !.s.first_step = FALSE]

debug_append(m, a) ==
    IF ~Ok(m) \/ ~a.debug THEN m
    ELSE LET m1 == IF total_num_gpot_neurons(a.n_list) > 0
                   THEN Log([m EXCEPT !.s.gpot_buffer_file = Append(@, m.s.gpot_buffer)],
                            Ev("dataset_append", 0))
                   ELSE m
         IN  IF total_synapses(a.s_list) + num_input(a.n_list) > 0
             THEN Log([m1 EXCEPT !.s.synapse_state_file = Append(@, m.s.synapse_state)],
                      Ev("dataset_append", 1))
             ELSE m1

\* (variant of extract_projection: the last of the N entries not copied)
extract_projection_short(all_V, projection_V, all_index, projection_index, N) ==
    [p \in 1..Len(projection_V) |->
        IF \E i \in 1..(N - 1) : projection_index[i] = p - 1
        THEN all_V[all_index[CHOOSE i \in 1..(N - 1) : projection_index[i] = p - 1] + 1]
        ELSE projection_V[p]]
\* the kernel extract_projection: projection_V[p_ind[i]] = all_V[a_ind[i]]
extract_projection(all_V, projection_V, all_index, projection_index, N) ==
    [p \in 1..Len(projection_V) |->
        IF \E i \in 1..N : projection_index[i] = p - 1
        THEN all_V[all_index[CHOOSE i \in 1..N : projection_index[i] = p - 1] + 1]
        ELSE projection_V[p]]

extract_output(m, a) ==
    IF ~Ok(m) THEN m
    ELSE LET nl == a.n_list
             m0 == Log(m, Ev("extract_output", 0))
             m1 == IF num_public_gpot(nl) > 0
                   THEN Log([m0 EXCEPT !.s.pm_gpot =
                                extract_projection(m0.s.V, @, out_ports_ids_gpot(nl),
                                                   sel_out_gpot_ids(nl), num_public_gpot(nl))],
                            Ev("extract_projection", 0))
                   ELSE m0
         IN  IF num_public_spike(nl) > 0
             THEN Log([m1 EXCEPT !.s.pm_spike =
                          extract_projection(m1.s.spike_state, @, out_ports_ids_spk(nl),
                                             sel_out_spk_ids(nl), num_public_spike(nl))],
                      Ev("extract_projection", 1))
             ELSE m1

\* a[index] for an index array
Take(arr, index) == [k \in 1..Len(index) |-> arr[index[k] + 1]]

write_output(m, a) ==
    IF ~Ok(m) \/ ~a.output THEN m
    ELSE LET nl == a.n_list
             m0 == Log(m, Ev("write_output", 0))
             m1 == IF total_num_gpot_neurons(nl) > 0
                   THEN [m0 EXCEPT !.s.output_gpot = Append(@, Take(m0.s.V, gpot_order_l(nl)))]
                   ELSE m0
         IN  IF total_num_spike_neurons(nl) > 0
             THEN [m1 EXCEPT !.s.output_spike =
                      Append(@, Take(m1.s.spike_state, spike_order_l(nl)))]
             ELSE m1

ExternalOrSkip(m, a, g, raises) ==
    IF a.input_file THEN read_external_input(m, a, g, raises) ELSE m

\* (variant of RunStep: the outputs extracted before anything else)
RunStepScatterFirst(m, a, g, raises) ==
    write_output(debug_append(ModelsOrFirst(
        ExternalOrSkip(read_LPU_input(extract_output(m, a), a), a, g, raises), a), a), a)

\* the body of run_step after Module.run_step
RunStep(m, a, g, raises) ==
    write_output(extract_output(debug_append(ModelsOrFirst(
        ExternalOrSkip(read_LPU_input(m, a), a, g, raises), a), a), a), a)

\* the environment's choices that the handler can observe
PortChoices(a) ==
    IF num_in_ports_gpot(a.n_list) + num_in_ports_spk(a.n_list) > 0 THEN PortValues ELSE {0}
ShortSource(a) == a.input_file /\ a.frames < a.one_time_import
GarbageChoices(a) == IF ShortSource(a) THEN GarbageFrames ELSE {0}
RaiseChoices(a) == IF ShortSource(a) THEN BOOLEAN ELSE {FALSE}

run_step ==
    /\ phase = "running"
    /\ obs.tick < MaxTicks
    /\ \E pv \in PortChoices(args), g \in GarbageChoices(args), raises \in RaiseChoices(args) :
          LET m0 == Module_run_step(
                        [s |-> self, o |-> [obs EXCEPT !.tick = @ + 1, !.trace = <<>>]],
                        args, pv)
              m == RunStep(m0, args, g, raises)
          IN  /\ self' = m.s
              /\ obs' = m.o
              /\ phase' = IF Ok(m) THEN "running" ELSE "error"
    /\ UNCHANGED args

\* ----------------------------------------------------------- post_run
ClosedAtPostRun(a) == OutputFiles(a) \cup DebugFiles(a)

post_run ==
    /\ phase = "running"
    /\ LET closed == [self EXCEPT !.open_files = @ \ ClosedAtPostRun(args),
                                  !.closed_files = @ \cup ClosedAtPostRun(args)]
           none == \E k \in 1..Len(neurons(args.n_list)) : ~neurons(args.n_list)[k].obj
           nones == \E k \in 1..Len(synapses(args.s_list)) : ~synapses(args.s_list)[k].obj
       IN  /\ self' = closed
           /\ phase' = IF none \/ nones THEN "error" ELSE "stopped"
           /\ obs' = [obs EXCEPT !.err = IF none THEN "neuron is None"
                                         ELSE IF nones THEN "synapse is None" ELSE @]
    /\ UNCHANGED args

Next == pre_run \/ run_step \/ post_run

Spec == Init /\ [][Next]_vars

\* ===================================================================
\* graph_to_dicts
\* ===================================================================
\* A Python dict is a function on its keys.  A graph is
\*   [node  |-> function neuron ID -> attribute dict,
\*    edges |-> sequence of [pre, post, attrs]]
\* where a post-synaptic site is [syn |-> FALSE, n |-> neuron ID] or
\* [syn |-> TRUE, n |-> k] for the string 'synapse-k'.

Has(d, k) == k \in DOMAIN d
Put(d, k, v) == [x \in DOMAIN d \cup {k} |-> IF x = k THEN v ELSE d[x]]
Del(d, k) == [x \in DOMAIN d \ {k} |-> d[x]]

IsPort(model) == model = PORT_IN_GPOT \/ model = PORT_IN_SPK

\* the assertions of lines 163 and 173
NeuronAccepted(neu) ==
    /\ IsPort(neu["model"]) => Has(neu, "selector")
    /\ (~IsPort(neu["model"]) /\ Has(neu, "public") /\ neu["public"]) => Has(neu, "selector")

\* (variant of PortNormalize: the public flag of a port left as given)
PortNormalizeKeepPublic(neu) ==
    IF IsPort(neu["model"])
    THEN Put(neu, "spiking", neu["model"] = PORT_IN_SPK)
    ELSE neu
\* lines 162-169: an input port is graded or spiking by its model and is
\* never public
PortNormalize(neu) ==
    IF IsPort(neu["model"])
    THEN Put(Put(neu, "spiking", neu["model"] = PORT_IN_SPK), "public", FALSE)
    ELSE neu

\* lines 171-177: the defaults of public and selector
NeuronDefaults(neu) ==
    LET a == IF Has(neu, "public") THEN neu ELSE Put(neu, "public", FALSE)
    IN  IF Has(a, "selector") THEN a ELSE Put(a, "selector", "")

\* lines 179-187: the entry of a model in n_dict / s_dict maps each key to
\* the list of the values of the records of that model; extra holds the
\* columns that are not attributes (id for neurons, pre and post for
\* synapses).  The entry carries its model name under "name".
NewEntry(model, rec, extra) ==
    [k \in ((DOMAIN rec \cup DOMAIN extra) \cup {"name"}) |->
        IF k = "name" THEN model ELSE <<>>]

SameKeys(e, rec, extra) == DOMAIN e \ {"name"} = DOMAIN rec \cup DOMAIN extra

AppendRecord(e, rec, extra) ==
    [k \in DOMAIN e |->
        IF k = "name" THEN e[k]
        ELSE IF k \in DOMAIN extra THEN Append(e[k], extra[k])
        ELSE Append(e[k], rec[k])]

EntryOf(dict, model) ==
    IF \E i \in 1..Len(dict) : dict[i]["name"] = model
    THEN CHOOSE i \in 1..Len(dict) : dict[i]["name"] = model
    ELSE 0

\* add one record to the dict under its model; ok is FALSE when the
\* assertion "same attributes within a model" fails
AddRecord(dict, model, rec, extra) ==
    LET i == EntryOf(dict, model)
        d == IF i = 0 THEN Append(dict, NewEntry(model, rec, extra)) ELSE dict
        j == IF i = 0 THEN Len(d) ELSE i
    IN  IF SameKeys(d[j], rec, extra)
        THEN [ok |-> TRUE, dict |-> [d EXCEPT ![j] = AppendRecord(d[j], rec, extra)]]
        ELSE [ok |-> FALSE, dict |-> d]

\* for val in dict.itervalues(): val.pop('model')
PopModel(dict) == [i \in 1..Len(dict) |-> Del(dict[i], "model")]

\* lines 159-187: the loop over the neurons in ascending ID.  acc holds
\* the caller's node dicts (changed in place), n_dict so far, and ok.
NeuronStep(acc, id) ==
    LET neu == acc.node[id]
        norm == NeuronDefaults(PortNormalize(neu))
        r == AddRecord(acc.n_dict, neu["model"], norm, [id |-> id])
    IN  IF ~acc.ok THEN acc
        ELSE IF ~NeuronAccepted(neu) THEN [acc EXCEPT !.ok = FALSE]
        ELSE [ok |-> r.ok, node |-> [acc.node EXCEPT ![id] = norm], n_dict |-> r.dict]

RECURSIVE NeuronLoop(_, _)
NeuronLoop(acc, ids) ==
    IF ids = <<>> THEN acc ELSE NeuronLoop(NeuronStep(acc, Head(ids)), Tail(ids))

\* synapse_cmp: neuron targets before synapse targets, then by number
synapse_cmp_less(x, y) ==
    \/ ~x.post.syn /\ y.post.syn
    \/ x.post.syn = y.post.syn /\ x.post.n < y.post.n

\* synapses.sort(cmp=synapse_cmp) is stable: position k of the result
\* holds element SortPerm[k] of the list
SortPerm(list) ==
    [k \in 1..Len(list) |->
        CHOOSE i \in 1..Len(list) :
            Cardinality({j \in 1..Len(list) :
                \/ synapse_cmp_less(list[j], list[i])
                \/ ~synapse_cmp_less(list[i], list[j]) /\ j < i}) = k - 1]

\* lines 200-211: the defaults of a synapse record; id is its position in
\* the sorted list
SynapseDefaults(syn, id) ==
    LET a == IF Has(syn, "conductance") THEN syn ELSE Put(syn, "conductance", TRUE)
        b == IF ~Has(a, "reverse") /\ Has(a, "reversal_pot")
             THEN Del(Put(a, "reverse", a["reversal_pot"]), "reversal_pot")
             ELSE a
    IN  IF Has(b, "id") THEN b ELSE Put(b, "id", id)

\* lines 196-223 for the synapse at position k of the sorted list
SynapseStep(acc, perm, k) ==
    LET e == acc.edges[perm[k]]
        norm == SynapseDefaults(e.attrs, k - 1)
        r == AddRecord(acc.s_dict, e.attrs["model"], norm, [pre |-> e.pre, post |-> e.post])
    IN  IF ~acc.ok THEN acc
        ELSE [ok |-> r.ok,
              edges |-> [acc.edges EXCEPT ![perm[k]].attrs = norm],
              s_dict |-> r.dict]

RECURSIVE SynapseLoop(_, _, _)
SynapseLoop(acc, perm, k) ==
    IF k > Len(perm) THEN acc ELSE SynapseLoop(SynapseStep(acc, perm, k), perm, k + 1)

\* graph_to_dicts(graph): the returned dicts (n_dict.items() and
\* s_dict.items() in discovery order), whether an assertion aborted the
\* call, and the caller's graph as the call leaves it
graph_to_dicts(graph) ==
    LET n == NeuronLoop([ok |-> TRUE, node |-> graph.node, n_dict |-> <<>>],
                        SortedSeq(DOMAIN graph.node))
        s == SynapseLoop([ok |-> n.ok, edges |-> graph.edges, s_dict |-> <<>>],
                         SortPerm(graph.edges), 1)
    IN  [ok |-> n.ok /\ s.ok,
         n_dict |-> IF n.ok /\ s.ok THEN PopModel(n.n_dict) ELSE <<>>,
         s_dict |-> IF n.ok /\ s.ok THEN PopModel(s.s_dict) ELSE <<>>,
         graph |-> [node |-> n.node, edges |-> s.edges]]

\* extract_out_gpot / extract_out_spk: the non-empty selectors of the
\* public neurons of one kind, in n_dict.items() order
NonEmpty(sel) == sel # ""
extract_out_sel(nl, spk) ==
    SelectSeq(Concat([i \in 1..Len(nl) |-> Mask(nl[i].selector, PubMask(nl[i], spk))]),
              NonEmpty)

\* ===================================================================
\* LPU.__init__: the synapse tables
\* ===================================================================
\* Here a synapse model is a record of columns id, pre, post, class,
\* conductance, delay and reverse, one entry per synapse; a post-synaptic
\* site is [syn |-> FALSE, n |-> neuron ID] or [syn |-> TRUE, n |-> k]
\* for 'synapse-k'.

\* (variant of nid_max: the largest neuron ID itself)
nid_max_is_largest(nl) == MaxOf(Range(n_id(nl)))
nid_max(nl) == MaxOf(Range(n_id(nl))) + 1

\* np.argsort(a) where entries may be equal.  For the short arrays of the
\* model numpy's default sort is an insertion sort, which keeps equal
\* entries in their order, as kind='mergesort' does for any length.
ArgSortTies(a) ==
    [k \in 1..Len(a) |->
        (CHOOSE i \in 1..Len(a) :
            Cardinality({j \in 1..Len(a) : a[j] < a[i] \/ (a[j] = a[i] /\ j < i)}) = k - 1) - 1]

IsSynSite(p) == p.syn
IsNeuSite(p) == ~p.syn

\* lines 536-538: the neuron targets, resolved, then the synapse targets
s_neu_post(nl, s) ==
    LET sites == SelectSeq(s.post, IsNeuSite)
    IN  [k \in 1..Len(sites) |-> order(nl, sites[k].n)]
s_syn_post(nl, s) ==
    LET sites == SelectSeq(s.post, IsSynSite)
    IN  [k \in 1..Len(sites) |-> sites[k].n + nid_max(nl)]
s_post(nl, s) == s_neu_post(nl, s) \o s_syn_post(nl, s)

\* lines 528-542: every column of the model reordered by the argsort of
\* the new post column
compile_synapse(nl, s) ==
    LET post == s_post(nl, s)
        pre == s_pre(nl, s)
        ord == ArgSortTies(post)
    IN  [id |-> Take(s.id, ord),
         pre |-> Take(pre, ord),
         post |-> Take(post, ord),
         class |-> Take(s.class, ord),
         conductance |-> Take(s.conductance, ord),
         delay |-> Take(s.delay, ord),
         reverse |-> Take(s.reverse, ord)]

compile_synapses(nl, sl) == [i \in 1..Len(sl) |-> compile_synapse(nl, sl[i])]

\* the entries of a column at the rows whose conductance flag is c
RowsOf(t, col, c) == Mask(col, [k \in 1..Len(col) |-> t.conductance[k] = c])

\* range(a, b)
PyRange(a, b) == [k \in 1..(IF b > a THEN b - a ELSE 0) |-> a + k - 1]

\* lines 550-552 and 563-565, 576: the posts of the conductance synapses
\* of all models in the order the loop collects them, and those of the
\* other synapses followed by the external inputs
cond_post_list(nl, sl) ==
    LET tabs == compile_synapses(nl, sl)
    IN  Concat([i \in 1..Len(tabs) |-> RowsOf(tabs[i], tabs[i].post, TRUE)])
I_post_list(nl, sl) ==
    LET tabs == compile_synapses(nl, sl)
    IN  Concat([i \in 1..Len(tabs) |-> RowsOf(tabs[i], tabs[i].post, FALSE)])
            \o input_neuron_list(nl)

\* lines 550-553 and 580-585: the posts of the conductance synapses of all
\* models, sorted
cond_post(nl, sl) ==
    LET all == cond_post_list(nl, sl)
    IN  Take(all, ArgSortTies(all))

\* lines 563-566, 576 and 589-593: the posts of the other synapses and of
\* the external inputs, sorted
I_post(nl, sl) ==
    LET all == I_post_list(nl, sl)
    IN  Take(all, ArgSortTies(all))

\* the counter count of the loop of lines 527-573 when it reaches model i
\* (1-based): a model with n conductance synapses advances it by n (line
\* 555), a model with any other synapse by the length of the whole model
\* (line 567)
RECURSIVE CountBefore(_, _)
CountBefore(tabs, i) ==
    IF i <= 1 THEN 0
    ELSE LET t == tabs[i - 1]
             nc == Len(RowsOf(t, t.post, TRUE))
             ni == Len(RowsOf(t, t.post, FALSE))
         IN  CountBefore(tabs, i - 1) + nc + (IF ni > 0 THEN Len(t.post) ELSE 0)

\* lines 554 and 566: the source positions handed out to the model's
\* conductance synapses and to its other synapses
cond_pre_of(tabs, i) ==
    LET nc == Len(RowsOf(tabs[i], tabs[i].post, TRUE))
    IN  PyRange(CountBefore(tabs, i), CountBefore(tabs, i) + nc)
I_pre_of(tabs, i) ==
    LET nc == Len(RowsOf(tabs[i], tabs[i].post, TRUE))
        ni == Len(RowsOf(tabs[i], tabs[i].post, FALSE))
    IN  PyRange(CountBefore(tabs, i) + nc, CountBefore(tabs, i) + nc + ni)

\* lines 554, 581 and 586
cond_pre(nl, sl) ==
    LET tabs == compile_synapses(nl, sl)
        all == Concat([i \in 1..Len(tabs) |-> cond_pre_of(tabs, i)])
        order1 == ArgSortTies(cond_post_list(nl, sl))
    IN  Take(all, order1)

\* lines 566, 577-578, 590 and 594
I_pre(nl, sl) ==
    LET tabs == compile_synapses(nl, sl)
        all == Concat([i \in 1..Len(tabs) |-> I_pre_of(tabs, i)])
                 \o PyRange(total_synapses(sl), total_synapses(sl) + num_input(nl))
        order1 == ArgSortTies(I_post_list(nl, sl))
    IN  Take(all, order1)

\* lines 643-644 and 646-647: the posts that are synapse targets, as
\* synapse IDs again
AtLeast(a, lo) == Mask(a, [k \in 1..Len(a) |-> a[k] >= lo])
post_syn_ids(nl, posts) ==
    LET at == AtLeast(posts, nid_max(nl))
    IN  [k \in 1..Len(at) |-> at[k] - nid_max(nl)]

\* lines 637-642: s_id is the IDs of all synapses in packed order, and
\* s_order = np.arange(total_synapses)[s_id]
s_id(nl, sl) == Concat([i \in 1..Len(sl) |-> compile_synapse(nl, sl[i]).id])
s_order(nl, sl) ==
    LET ids == s_id(nl, sl)
    IN  Take(PyRange(0, total_synapses(sl)), ids)

\* lines 644 and 647: the packed position s_order gives a target synapse
post_syn(nl, sl, posts) ==
    LET so == s_order(nl, sl)
        ids == post_syn_ids(nl, posts)
    IN  Take(so, ids)

\* lines 645 and 648: the first synapse target's index in the sorted posts
post_syn_offset(nl, posts) == Len(posts) - Len(post_syn_ids(nl, posts))

\* lines 650-654 and 662-666: the rows of the sorted fan-in table (posts,
\* pres) kept for synapse model i: its fan-in posts (as synapse IDs) and
\* their source positions
syn_fan_in(nl, sl, i, posts, pres) ==
    LET ps == post_syn(nl, sl, posts)
        keep == [e \in 1..Len(ps) |->
                    /\ ps[e] >= idx_start_synapse(sl)[i]
                    /\ ps[e] < idx_start_synapse(sl)[i + 1]]
        idx == Mask(PyRange(0, Len(ps)), keep)
        offset == post_syn_offset(nl, posts)
        at == [e \in 1..Len(idx) |-> idx[e] + offset]
    IN  [post |-> [e \in 1..Len(at) |-> posts[at[e] + 1] - nid_max(nl)],
         pre |-> Take(pres, at)]

\* what __init__ leaves of the synapse data
LPU_init_synapses(nl, sl) ==
    LET cpost == cond_post(nl, sl)
        ipost == I_post(nl, sl)
        cpre == cond_pre(nl, sl)
        ipre == I_pre(nl, sl)
    IN  [tables |-> compile_synapses(nl, sl),
         cond_post |-> cpost,
         I_post |-> ipost,
         cond_post_syn |-> post_syn_ids(nl, cpost),
         I_post_syn |-> post_syn_ids(nl, ipost),
         cond_pre |-> cpre,
         I_pre |-> ipre,
         s_cond |-> [i \in 1..Len(sl) |-> syn_fan_in(nl, sl, i, cpost, cpre)],
         s_I |-> [i \in 1..Len(sl) |-> syn_fan_in(nl, sl, i, ipost, ipre)]]

\* ===================================================================
\* the gather and scatter kernels on typed arrays
\* ===================================================================
\* An array is [dtype |-> its element type, data |-> its elements].

\* set_inds (lines 887-901) with its assertion on the element types
set_inds_typed(src, dest, inds, dest_shift) ==
    IF src.dtype # dest.dtype
    THEN [raised |-> TRUE, src |-> src, dest |-> dest]
    ELSE [raised |-> FALSE, src |-> src,
          dest |-> [dest EXCEPT !.data = set_inds(src.data, @, inds, dest_shift)]]

\* what the kernel reads from an array of another element type than the
\* one it was compiled for: the same memory taken as that type
Reinterpreted(data, g) == [p \in 1..Len(data) |-> g]

\* the call of the kernel made by _extract_output (lines 918-934); the
\* kernel was compiled for the element type of the state array (1048-1050)
\* and takes the port array as a bare pointer.  g is what the elements of
\* a port array of another type come out as.
extract_typed(all_V, projection_V, all_index, projection_index, N, g) ==
    [raised |-> FALSE, src |-> all_V,
     dest |-> [projection_V EXCEPT !.data =
                 extract_projection(
                     IF all_V.dtype = projection_V.dtype THEN all_V.data
                     ELSE Reinterpreted(all_V.data, g),
                     @, all_index, projection_index, N)]]

\* ===================================================================
\* single calls
\* ===================================================================
\* CallSpec describes one call of graph_to_dicts, of the synapse part of
\* LPU.__init__, of set_inds or of the extraction kernel on arguments
\* drawn from the sets below.  There args is the call ([op |-> ..., and
\* its arguments]), self is [ret |-> what the call returned or left
\* behind] and phase is "called", "returned" or "raised".

\* ---- graphs
GraphModels == {"MorrisLecar", "LeakyIAF", PORT_IN_GPOT, PORT_IN_SPK}
Selector(id) == <<"/a/0", "/a/1", "/a/2">>[id + 1]

NodeBase(m) ==
    IF IsPort(m) THEN [model |-> m, extern |-> FALSE]
    ELSE [model |-> m, extern |-> FALSE, spiking |-> IsSpikingModel(m)]
\* c = 0: the key is absent; 1 and 2: the two values tried
WithPublic(d, c) == IF c = 0 THEN d ELSE Put(d, "public", c = 2)
WithSelector(d, c, id) ==
    IF c = 0 THEN d ELSE Put(d, "selector", IF c = 1 THEN "" ELSE Selector(id))

NodeAttrs(id) ==
    {WithSelector(WithPublic(NodeBase(m), p), s, id) : m \in GraphModels, p \in 0..2, s \in 0..2}

GraphNodes ==
    {(0 :> a) : a \in NodeAttrs(0)}
    \cup {(0 :> a) @@ (1 :> b) : a \in NodeAttrs(0), b \in NodeAttrs(1)}

Site(syn, n) == [syn |-> syn, n |-> n]
Sites == {Site(syn, n) : syn \in BOOLEAN, n \in 0..1}

WithKey(d, present, k, v) == IF present THEN Put(d, k, v) ELSE d
EdgeAttrs ==
    {WithKey(WithKey(WithKey(WithKey([model |-> "AlphaSynapse", class |-> 3],
                                     c, "conductance", FALSE),
                             rp, "reversal_pot", -65),
                     rv, "reverse", -80),
             i, "id", 5) :
        c \in BOOLEAN, rp \in BOOLEAN, rv \in BOOLEAN, i \in BOOLEAN}
Edge(pre, post, attrs) == [pre |-> pre, post |-> post, attrs |-> attrs]

EdgeLists ==
    {<<Edge(0, Site(FALSE, 1), a)>> : a \in EdgeAttrs}
    \cup {<<Edge(0, p, a), Edge(1, q, b)>> :
            p \in Sites, q \in Sites,
            a \in {[model |-> "AlphaSynapse", class |-> 3]},
            b \in {[model |-> "AlphaSynapse", class |-> 3],
                   [model |-> "AlphaSynapse", class |-> 3, conductance |-> FALSE],
                   [model |-> "Other", class |-> 0]}}

PlainNodes ==
    (0 :> [model |-> "MorrisLecar", extern |-> FALSE, spiking |-> FALSE])
    @@ (1 :> [model |-> "LeakyIAF", extern |-> FALSE, spiking |-> TRUE])

Graphs ==
    {[node |-> n, edges |-> <<>>] : n \in GraphNodes}
    \cup {[node |-> PlainNodes, edges |-> e] : e \in EdgeLists}

GraphCalls == {[op |-> "graph_to_dicts", graph |-> g] : g \in Graphs}

\* ---- synapse tables
SRows(name, cls, ids, posts, conds, delays) ==
    [name |-> name,
     class |-> [k \in 1..Len(ids) |-> cls],
     id |-> ids,
     pre |-> [k \in 1..Len(ids) |-> PreOf(cls)],
     post |-> posts,
     conductance |-> conds,
     has_delay |-> TRUE,
     delay |-> delays,
     reverse |-> [k \in 1..Len(ids) |-> -60 - ids[k]]]

\* graded neurons 0 (and 2), spiking neuron 1, in either layout
InitNeurons ==
    {TwoNeurons,
     <<NModel("LeakyIAF", <<1>>, FALSE, TRUE), NModel("MorrisLecar", <<0, 2>>, FALSE, FALSE)>>}

InitSynapses ==
    {<<SRows("AlphaSynapse", cls, ids, <<p, q>>, <<c[1], c[2]>>, <<d[1], d[2]>>)>> :
        cls \in 0..3, ids \in {<<0, 1>>, <<1, 0>>}, p \in Sites, q \in Sites,
        c \in BOOLEAN \X BOOLEAN, d \in {0, MaxDelay} \X {0, MaxDelay}}
    \cup {<<SRows("AlphaSynapse", x, <<0>>, <<p>>, <<c[1]>>, <<0>>),
            SRows("Other", y, <<1>>, <<q>>, <<c[2]>>, <<MaxDelay>>)>> :
            x \in 0..3, y \in 0..3, p \in Sites, q \in Sites, c \in BOOLEAN \X BOOLEAN}

Injective(f) == \A i, j \in DOMAIN f : f[i] = f[j] => i = j

\* three graded-to-graded synapses in two models, their IDs any
\* arrangement of 0, 1, 2
Arrangements == {f \in [1..3 -> 0..2] : Injective(f)}
ThreeSynapses ==
    {<<SRows("AlphaSynapse", 3, <<f[1], f[2]>>, <<p, q>>, <<c[1], c[2]>>, <<0, 0>>),
       SRows("Other", 3, <<f[3]>>, <<r>>, <<c[3]>>, <<0>>)>> :
        f \in Arrangements, p \in Sites, q \in Sites, r \in Sites,
        c \in BOOLEAN \X BOOLEAN \X BOOLEAN}

\* every neuron takes an external input; the spiking model is listed first
ExternAll ==
    <<NModel("LeakyIAF", <<1>>, FALSE, TRUE), NModel("MorrisLecar", <<0, 2>>, FALSE, TRUE)>>
WiredSynapses ==
    {<<>>}
    \cup {<<SRows("AlphaSynapse", 3, <<0>>, <<p>>, <<c[1]>>, <<0>>),
             SRows("Other", 3, <<1>>, <<q>>, <<c[2]>>, <<0>>)>> :
             p \in Sites, q \in Sites, c \in BOOLEAN \X BOOLEAN}

InitCalls ==
    {[op |-> "init", n_list |-> nl, s_list |-> sl] : nl \in InitNeurons, sl \in InitSynapses}
    \cup {[op |-> "init", n_list |-> TwoNeurons, s_list |-> sl] : sl \in ThreeSynapses}
    \cup {[op |-> "init", n_list |-> ExternAll, s_list |-> sl] : sl \in WiredSynapses}

\* ---- the external-input feeder
\* the object between two run_step calls that have not yet refilled the
\* window: c frames have been copied, and the models have left the marks
\* 100 + p in synapse_state
Marked(n) == [p \in 1..n |-> 100 + p]
Fed(a, c) ==
    [init_objects(initialize_gpu_ds(SelfInit(a), a), a) EXCEPT
        !.first_step = FALSE, !.frame_count = c, !.synapse_state = Marked(Len(@))]

FeedCalls ==
    UNION {{[op |-> "read_external_input", a |-> a, s |-> Fed(a, c)] :
               c \in 0..(MinOf({a.frames, a.one_time_import}) - 1)} :
           a \in {Args(nl, sl, 1, N, W, FALSE, FALSE) :
                     nl \in ExternNeurons \cup {ExternAll},
                     sl \in {<<>>, <<One(0, 0, FALSE, 0)>>,
                              <<One(0, 0, FALSE, 0), One(3, 1, TRUE, 0)>>},
                     N \in 1..MaxFrames, W \in 1..MaxWindow}}

\* ---- kernels
DTypes == {"float64", "int32"}
Arr(dtype, data) == [dtype |-> dtype, data |-> data]
\* index arrays of the given length into an array of n elements
IndexArrays(len, n) == [1..len -> 0..(n - 1)]

GatherCalls ==
    UNION {{[op |-> "set_inds", src |-> Arr(st, <<7, 8>>), dest |-> Arr(dt, <<1, 2, 3>>),
             inds |-> inds, dest_shift |-> shift] :
               st \in DTypes, dt \in DTypes, inds \in IndexArrays(len, 2), shift \in 0..(3 - len)} :
           len \in 0..2}

ScatterCalls ==
    UNION {{[op |-> "extract", src |-> Arr(st, <<7, 8>>), dest |-> Arr(dt, <<1, 2, 3>>),
             all_index |-> ai, projection_index |-> pi, N |-> len] :
               st \in DTypes, dt \in DTypes, ai \in IndexArrays(len, 2),
               pi \in {f \in IndexArrays(len, 3) : Injective(f)}} :
           len \in 0..2}

\* the values the elements of an array read as another type can take
TypePunned == {-1, -9}

Calls == GraphCalls \cup InitCalls \cup GatherCalls \cup ScatterCalls \cup FeedCalls

CallInit ==
    /\ args \in Calls
    /\ self = [ret |-> <<>>]
    /\ obs = [tick |-> 0]
    /\ phase = "called"

call_graph_to_dicts ==
    /\ phase = "called" /\ args.op = "graph_to_dicts"
    /\ self' = [ret |-> graph_to_dicts(args.graph)]
    /\ phase' = IF self'.ret.ok THEN "returned" ELSE "raised"
    /\ UNCHANGED <<args, obs>>

call_init ==
    /\ phase = "called" /\ args.op = "init"
    /\ self' = [ret |-> LPU_init_synapses(args.n_list, args.s_list)]
    /\ phase' = "returned"
    /\ UNCHANGED <<args, obs>>

call_set_inds ==
    /\ phase = "called" /\ args.op = "set_inds"
    /\ self' = [ret |-> set_inds_typed(args.src, args.dest, args.inds, args.dest_shift)]
    /\ phase' = IF self'.ret.raised THEN "raised" ELSE "returned"
    /\ UNCHANGED <<args, obs>>

call_extract ==
    /\ phase = "called" /\ args.op = "extract"
    /\ \E g \in (IF args.src.dtype = args.dest.dtype THEN {0} ELSE TypePunned) :
          self' = [ret |-> extract_typed(args.src, args.dest, args.all_index,
                                         args.projection_index, args.N, g)]
    /\ phase' = IF self'.ret.raised THEN "raised" ELSE "returned"
    /\ UNCHANGED <<args, obs>>

call_read_external_input ==
    /\ phase = "called" /\ args.op = "read_external_input"
    /\ \E g \in GarbageChoices(args.a), raises \in RaiseChoices(args.a) :
          LET m == read_external_input([s |-> args.s, o |-> ObsInit(args.a)],
                                       args.a, g, raises)
          IN  /\ self' = [ret |-> m]
              /\ phase' = IF Ok(m) THEN "returned" ELSE "raised"
    /\ UNCHANGED <<args, obs>>

CallNext ==
    \/ call_graph_to_dicts
    \/ call_init
    \/ call_set_inds
    \/ call_extract
    \/ call_read_external_input

CallSpec == CallInit /\ [][CallNext]_vars

\* ===================================================================
\* Properties
\* ===================================================================
Count(tr, e) == Cardinality({k \in 1..Len(tr) : tr[k] = e})
Ops(tr) == {tr[k].op : k \in 1..Len(tr)}
Pos(tr, op) == {k \in 1..Len(tr) : tr[k].op = op}
Ran == phase # "constructed" /\ obs.tick >= 1
NeuronObjs == {neurons(args.n_list)[k].i :
                  k \in {j \in 1..Len(neurons(args.n_list)) : neurons(args.n_list)[j].obj}}
SynapseObjs == {synapses(args.s_list)[k].i :
                  k \in {j \in 1..Len(synapses(args.s_list)) : synapses(args.s_list)[j].obj}}
ModelOps == {"update_I", "eval", "update_state", "update_buffer", "buffer.step"}

\* C1: the first run_step after pre_run evaluates no neuron and no synapse
\* model, writes nothing into the delay buffer, moves no cursor and clears
\* first_step; every later run_step calls update_I and eval exactly once on
\* each instantiated neuron object and update_state exactly once on each
\* synapse object; first_step is never true again.
C1_FirstTickSkipsThenAllModels ==
    Ran =>
        /\ ~self.first_step
        /\ obs.tick = 1 =>
              /\ Ops(obs.trace) \cap ModelOps = {}
              /\ self.gpot_current = 0 /\ self.spike_current = 0
              /\ \A k \in 1..Len(self.gpot_buffer) : self.gpot_buffer[k] = Zeros(Len(self.V))
              /\ \A k \in 1..Len(self.spike_buffer) :
                    self.spike_buffer[k] = Zeros(Len(self.spike_state))
              /\ \A i \in NeuronObjs :
                    /\ \A p \in Block(idx_start_gpot(args.n_list),
                                      num_gpot_neurons(args.n_list), i) : self.V[p] = 0
                    /\ \A p \in Block(idx_start_spike(args.n_list),
                                      num_spike_neurons(args.n_list), i) : self.spike_state[p] = 0
        /\ obs.tick >= 2 =>
              /\ \A i \in NeuronObjs :
                    Count(obs.trace, Ev("update_I", i)) = 1 /\ Count(obs.trace, Ev("eval", i)) = 1
              /\ \A i \in SynapseObjs : Count(obs.trace, Ev("update_state", i)) = 1

\* C2: within a run_step the calls are made in the order gather, external
\* input, neuron updates, delay-buffer advance, scatter, persistence; the
\* gather opens the tick and happens once, so that no tick overlaps the next.
Rank(e) ==
    CASE e.op \in {"read_LPU_input", "set_inds"} -> 1
      [] e.op \in {"read_external_input", "memcpy_ext", "log_eof", "refill"} -> 2
      [] e.op \in {"first_step = False", "update_I", "eval"} -> 3
      [] e.op \in {"update_buffer", "update_state", "buffer.step", "dataset_append"} -> 4
      [] e.op \in {"extract_output", "extract_projection"} -> 5
      [] e.op = "write_output" -> 6
      [] OTHER -> 0

C2_OrderWithinTick ==
    Ran =>
        LET tr == obs.trace
        IN  /\ tr # <<>> /\ tr[1] = Ev("read_LPU_input", 0)
            /\ Count(tr, Ev("read_LPU_input", 0)) = 1
            /\ \A p, q \in 1..Len(tr) :
                  (p < q /\ tr[p].op # "raise" /\ tr[q].op # "raise") => Rank(tr[p]) <= Rank(tr[q])
            /\ (args.input_file) => Count(tr, Ev("read_external_input", 0)) = 1
            /\ obs.err = "none" =>
                  /\ Count(tr, Ev("extract_output", 0)) = 1
                  /\ Count(tr, Ev("write_output", 0)) = (IF args.output THEN 1 ELSE 0)
                  /\ (obs.tick >= 2) =>
                        /\ Count(tr, Ev("update_buffer", 0)) = 1
                        /\ Count(tr, Ev("buffer.step", 0)) = 1

C2_Witness ==
    /\ phase = "running" /\ obs.tick >= 2
    /\ {"set_inds", "memcpy_ext", "eval", "update_buffer", "update_state", "buffer.step",
        "extract_projection", "write_output"} \subseteq Ops(obs.trace)

C1_WhenNothingRaises == obs.err = "none" => C1_FirstTickSkipsThenAllModels

\* C4: each cursor stays in 0..D-1, each CircularArray.step moves it to
\* (cursor + 1) mod D, so that after D steps it is 0 again; the two cursors
\* follow their own depths, and the cursor of a kind without neurons never
\* moves.
Depth(buf) == Len(buf)
C4_CursorWraps ==
    phase # "constructed" =>
        /\ Len(self.V) > 0 =>
              /\ Depth(self.gpot_buffer) >= 1
              /\ self.gpot_current \in 0..(Depth(self.gpot_buffer) - 1)
              /\ self.gpot_current = obs.buf_steps % Depth(self.gpot_buffer)
        /\ Len(self.spike_state) > 0 =>
              /\ Depth(self.spike_buffer) >= 1
              /\ self.spike_current \in 0..(Depth(self.spike_buffer) - 1)
              /\ self.spike_current = obs.buf_steps % Depth(self.spike_buffer)
        /\ Len(self.V) = 0 => self.gpot_current = 0
        /\ Len(self.spike_state) = 0 => self.spike_current = 0

C4_Witness ==
    /\ phase = "running"
    /\ Depth(self.gpot_buffer) = 3 /\ Depth(self.spike_buffer) = 2
    /\ obs.buf_steps = 3
    /\ self.gpot_current = 0 /\ self.spike_current = 1

\* C5: the graded depth is round(Dg/dt)+1 with Dg the largest delay of the
\* synapses whose presynaptic neuron is graded (class 2 or 3), the spiking
\* depth round(Ds/dt)+1 with Ds the largest delay of the synapses whose
\* presynaptic neuron is spiking (class 0 or 1); each is at least 1.
DelayByKind(sl, spk) ==
    MaxOf({0} \cup UNION {{sl[i].delay[k] :
                              k \in {j \in 1..Len(sl[i].id) :
                                        sl[i].has_delay /\ ((sl[i].class[j] <= 1) = spk)}} :
                          i \in 1..Len(sl)})
C5_DepthByPresynapticKind ==
    /\ gpot_delay_steps(args.s_list, args.dt)
          = RoundDiv(DelayByKind(args.s_list, FALSE), args.dt) + 1
    /\ spike_delay_steps(args.s_list, args.dt)
          = RoundDiv(DelayByKind(args.s_list, TRUE), args.dt) + 1
    /\ gpot_delay_steps(args.s_list, args.dt) >= 1
    /\ spike_delay_steps(args.s_list, args.dt) >= 1

\* C6: for every synapse with delay d steps the buffer of its presynaptic
\* kind is deeper than d, and what the synapse reads in tick t is the state
\* written in tick t - d (the initial fill when nothing was written then).
WrittenIn(t) == IF t >= 2 THEN t ELSE 0
C6_DelayedReadSeesTickMinusD ==
    \A i \in 1..Len(args.s_list) : \A k \in 1..Len(args.s_list[i].id) :
        LET sm == args.s_list[i]
            d == delay_steps(sm, k, args.dt)
            depth == IF sm.class[1] <= 1 THEN spike_delay_steps(args.s_list, args.dt)
                     ELSE gpot_delay_steps(args.s_list, args.dt)
        IN  /\ depth > d
            /\ (Ran /\ Ev("update_state", i) \in Range(obs.trace))
                  => obs.syn_read[i][k] = WrittenIn(obs.tick - d)

\* C6 where the depths suffice: the read is the state of tick t - d
C6_WhenDeepEnough ==
    \A i \in 1..Len(args.s_list) : \A k \in 1..Len(args.s_list[i].id) :
        LET sm == args.s_list[i]
            d == delay_steps(sm, k, args.dt)
            depth == IF sm.class[1] <= 1 THEN spike_delay_steps(args.s_list, args.dt)
                     ELSE gpot_delay_steps(args.s_list, args.dt)
        IN  (depth > d /\ Ran /\ Ev("update_state", i) \in Range(obs.trace))
                  => obs.syn_read[i][k] = WrittenIn(obs.tick - d)

\* the tags of the source frames a..b-1 (0-based)
Frames(a, b) == [i \in 1..(b - a) |-> a + i]
HasInput == args.input_file /\ phase # "constructed"

\* C7: with N > W frames, N no multiple of W, the window is refilled exactly
\* after the calls W, 2W, ...; after W*floor(N/W) calls floor(N/W) refills
\* have happened, the window holds the last N mod W frames followed by
\* W - (N mod W) zero frames, and input_eof is set.
C7_RefillsAndPaddedTail ==
    LET N == args.frames
        W == args.one_time_import
        full == N \div W
    IN  (HasInput /\ N > W /\ N % W # 0) =>
            /\ obs.refills = (IF obs.ext_calls \div W < full THEN obs.ext_calls \div W ELSE full)
            /\ obs.ext_calls < W * full => ~self.input_eof
            /\ obs.ext_calls >= W * full =>
                  /\ obs.refills = full
                  /\ self.I_ext = Frames(W * full, N) \o Zeros(W - (N % W))
                  /\ self.input_eof

C7_Witness ==
    /\ HasInput /\ phase = "running"
    /\ args.frames = 5 /\ args.one_time_import = 2
    /\ obs.ext_calls = 4 /\ obs.refills = 2
    /\ self.I_ext = <<5, 0>> /\ self.input_eof

\* C8: the k-th call of _read_external_input (k = 0..N-1) puts source frame
\* k into the input segment of synapse_state.
InputSegment(ss) ==
    [j \in 0..(num_input(args.n_list) - 1) |-> ss[total_synapses(args.s_list) + j + 1]]
C8_FramesInSourceOrder ==
    (HasInput /\ obs.ext_calls \in 1..args.frames /\ obs.err = "none") =>
        InputSegment(self.synapse_state)
            = [j \in 0..(num_input(args.n_list) - 1) |-> FrameVal(obs.ext_calls, j)]

\* C8 for the calls up to the last full window
C8_UpToLastFullWindow ==
    (HasInput /\ obs.ext_calls \in 1..args.frames /\ obs.err = "none"
        /\ (args.frames % args.one_time_import = 0
              \/ obs.ext_calls <= args.one_time_import * (args.frames \div args.one_time_import)
              \/ args.frames < args.one_time_import)) =>
        InputSegment(self.synapse_state)
            = [j \in 0..(num_input(args.n_list) - 1) |-> FrameVal(obs.ext_calls, j)]

\* C9: once input_eof is set and the cursor has reached frames_in_buffer, a
\* further call logs the end of the file and changes neither the input
\* segment of synapse_state nor the window, the cursor, the file pointer or
\* input_eof, raises nothing, and run_step goes on to its end; input_eof is
\* never cleared.
AtEof(s) == s.input_eof /\ s.frame_count >= s.frames_in_buffer
FeederState(s) ==
    <<s.I_ext, s.frame_count, s.frames_in_buffer, s.file_pointer, s.input_eof>>
C9_EofIsLoggedAndHarmless ==
    [][/\ self.input_eof => self'.input_eof
       /\ (args.input_file /\ phase = "running" /\ AtEof(self) /\ obs'.tick = obs.tick + 1) =>
             /\ Count(obs'.trace, Ev("log_eof", 0)) = 1
             /\ Pos(obs'.trace, "memcpy_ext") = {} /\ Pos(obs'.trace, "refill") = {}
             /\ FeederState(self') = FeederState(self)
             /\ InputSegment(self'.synapse_state) = InputSegment(self.synapse_state)
             /\ obs'.err # "I_ext.set"
             /\ \E p \in Pos(obs'.trace, "log_eof") : p < Len(obs'.trace)
             /\ obs'.err = "none" => Count(obs'.trace, Ev("extract_output", 0)) = 1]_vars

C9_Witness ==
    /\ HasInput /\ phase = "running" /\ AtEof(self)
    /\ Ev("log_eof", 0) \in Range(obs.trace)
    /\ Ev("extract_output", 0) \in Range(obs.trace)
    /\ num_input(args.n_list) > 0

\* C10: order is a bijection from the neuron IDs onto 0..N-1, gpot_order
\* from the graded IDs onto 0..Ng-1, spike_order from the spiking IDs onto
\* 0..Ns-1; order = gpot_order on graded IDs and Ng + spike_order on
\* spiking IDs.
Bijection(f, S, n) ==
    /\ DOMAIN f = S
    /\ {f[x] : x \in S} = 0..(n - 1)
    /\ \A x, y \in S : f[x] = f[y] => x = y
IdsOfKind(nl, spk) ==
    UNION {{nl[i].id[k] : k \in {j \in 1..Len(nl[i].id) : nl[i].spiking[j] = spk}} :
              i \in 1..Len(nl)}
C10_OrderBijections ==
    LET nl == args.n_list
        G == IdsOfKind(nl, FALSE)
        S == IdsOfKind(nl, TRUE)
        Ng == total_num_gpot_neurons(nl)
        Ns == total_num_spike_neurons(nl)
    IN  /\ Cardinality(G) = Ng /\ Cardinality(S) = Ns
        /\ Bijection(order_dict(nl), G \cup S, Ng + Ns)
        /\ Bijection(gpot_order_dict(nl), G, Ng)
        /\ Bijection(spike_order_dict(nl), S, Ns)
        /\ \A x \in G : order(nl, x) = gpot_order(nl, x)
        /\ \A x \in S : order(nl, x) = Ng + spike_order(nl, x)

C10_Witness ==
    LET nl == args.n_list
    IN  /\ Len(gpot_idx(nl)) >= 2 /\ Len(spike_idx(nl)) >= 1
        /\ n_id(nl) # gpot_idx(nl) \o spike_idx(nl)
        /\ Len(nl) >= 3
        /\ phase = "running"

\* C11: in the packed layout every graded neuron precedes every spiking
\* neuron, and for two neurons a, b of the same kind, whatever their
\* models, id(a) < id(b) implies order(a) < order(b).
C11_AscendingWithinKind ==
    LET nl == args.n_list
        G == IdsOfKind(nl, FALSE)
        S == IdsOfKind(nl, TRUE)
    IN  /\ \A a \in G, b \in S : order(nl, a) < order(nl, b)
        /\ \A a, b \in G : a < b => order(nl, a) < order(nl, b)
        /\ \A a, b \in S : a < b => order(nl, a) < order(nl, b)

\* What the layout does keep: graded before spiking, the models of a kind
\* in n_list order, and ascending IDs within one model.
IdsOfModel(n) == Range(n.id)
C11_AscendingWithinModel ==
    LET nl == args.n_list
    IN  /\ \A a \in IdsOfKind(nl, FALSE), b \in IdsOfKind(nl, TRUE) : order(nl, a) < order(nl, b)
        /\ \A i \in 1..Len(nl) : \A a, b \in IdsOfModel(nl[i]) :
              a < b => order(nl, a) < order(nl, b)
        /\ \A i, j \in 1..Len(nl) :
              (i < j /\ nl[i].spiking[1] = nl[j].spiking[1]) =>
                  \A a \in IdsOfModel(nl[i]), b \in IdsOfModel(nl[j]) :
                      order(nl, a) < order(nl, b)

\* ---------------------------------------------------------------------
\* the synapse tables (CallSpec, op = "init")
Compiled == phase = "returned" /\ args.op = "init"

\* the address a post-synaptic site stands for
ResolvedSite(nl, p) ==
    IF p.syn THEN p.n + MaxOf(Range(n_id(nl))) + 1 ELSE order(nl, p.n)

\* the row of the input model s that carries synapse ID id
RowOfId(s, id) == CHOOSE k \in 1..Len(s.id) : s.id[k] = id

NonDecreasing(a) == \A k \in 1..(Len(a) - 1) : a[k] <= a[k + 1]

\* table t is the input model s reordered: its post column ascends and
\* each row holds the columns of the input synapse with the row's ID
ReorderedByPost(nl, s, t) ==
    /\ Len(t.id) = Len(s.id) /\ Range(t.id) = Range(s.id)
    /\ NonDecreasing(t.post)
    /\ \A r \in 1..Len(t.id) :
          LET k == RowOfId(s, t.id[r])
          IN  /\ t.post[r] = ResolvedSite(nl, s.post[k])
              /\ t.pre[r] = s_pre(nl, s)[k]
              /\ t.delay[r] = s.delay[k]
              /\ t.conductance[r] = s.conductance[k]
              /\ t.reverse[r] = s.reverse[k]

\* C12: after __init__ the table of every synapse model is its input rows
\* reordered by ascending resolved post target, each row still carrying
\* the pre, id, delay, conductance and reverse of the synapse whose post it
\* holds, whatever the input order of neuron and synapse targets.
C12_TableIsInputSortedByPost ==
    Compiled =>
        \A i \in 1..Len(args.s_list) :
            ReorderedByPost(args.n_list, args.s_list[i], self.ret.tables[i])

\* The same for the models whose input lists no synapse target before a
\* neuron target (the order graph_to_dicts produces).
NeuronTargetsFirst(s) ==
    \A j, k \in 1..Len(s.post) : (j < k /\ s.post[j].syn) => s.post[k].syn
C12_WhenNeuronTargetsFirst ==
    Compiled =>
        \A i \in 1..Len(args.s_list) :
            NeuronTargetsFirst(args.s_list[i]) =>
                ReorderedByPost(args.n_list, args.s_list[i], self.ret.tables[i])

\* ---------------------------------------------------------------------
\* a with its entries in ascending order
SortedBag(a) == Take(a, ArgSortTies(a))

\* the synapse IDs that the sites of all input models name as targets
SynTargetIds(sl) ==
    Concat([i \in 1..Len(sl) |->
               LET sites == SelectSeq(sl[i].post, IsSynSite)
               IN  [k \in 1..Len(sites) |-> sites[k].n]])

\* C13: a post site 'synapse-k' is resolved to k + max_neuron_id + 1, which
\* is >= max_neuron_id + 1; a neuron post is resolved to a packed position
\* < number of neurons <= max_neuron_id + 1; so no synapse-target address
\* is a neuron position, and the places that take synapse targets out of
\* the post lists again recover exactly the IDs k.
C13_SynapseTargetsOffset ==
    Compiled =>
        LET nl == args.n_list
            sl == args.s_list
            max_neuron_id == MaxOf(Range(n_id(nl)))
            positions == {order(nl, x) : x \in Range(n_id(nl))}
        IN  /\ positions = 0..(Len(n_id(nl)) - 1)
            /\ Len(n_id(nl)) <= max_neuron_id + 1
            /\ \A i \in 1..Len(sl) :
                  LET t == self.ret.tables[i]
                      res == [k \in 1..Len(sl[i].post) |-> ResolvedSite(nl, sl[i].post[k])]
                      syn == SelectSeq(sl[i].post, IsSynSite)
                  IN  /\ t.post = SortedBag(res)
                      /\ \A r \in 1..Len(t.post) :
                            t.post[r] \in positions \/ t.post[r] >= max_neuron_id + 1
                      /\ SortedBag(AtLeast(t.post, max_neuron_id + 1))
                            = SortedBag([k \in 1..Len(syn) |-> syn[k].n + max_neuron_id + 1])
            /\ SortedBag(self.ret.cond_post_syn \o self.ret.I_post_syn)
                  = SortedBag(SynTargetIds(sl))

\* a model that targets synapse 0 and also the neuron packed last: the two
\* addresses are max_neuron_id + 1 and max_neuron_id
C13_Witness ==
    /\ Compiled
    /\ \E i \in 1..Len(args.s_list) :
          LET s == args.s_list[i]
          IN  \E j, k \in 1..Len(s.post) :
                /\ s.post[j].syn /\ s.post[j].n = 0
                /\ ~s.post[k].syn
                /\ order(args.n_list, s.post[k].n) = MaxOf(Range(n_id(args.n_list)))
                /\ self.ret.tables[i].post
                     = <<MaxOf(Range(n_id(args.n_list))), MaxOf(Range(n_id(args.n_list))) + 1>>

\* ---------------------------------------------------------------------
\* the kernels on typed arrays (CallSpec, op = "set_inds" or "extract")
KernelDone(op) == phase \in {"returned", "raised"} /\ args.op = op
Mismatch == args.src.dtype # args.dest.dtype

\* C14: the gather (set_inds) and the scatter (the extract_projection
\* kernel) are both rejected, before any element is copied, when the
\* element types of the state array and of the port data array differ.
C14_TypeMismatchRejected ==
    ((KernelDone("set_inds") \/ KernelDone("extract")) /\ Mismatch) =>
        /\ phase = "raised"
        /\ self.ret.dest = args.dest

\* The gather alone is rejected.
C14_GatherRejected ==
    (KernelDone("set_inds") /\ Mismatch) => (phase = "raised" /\ self.ret.dest = args.dest)

\* ---------------------------------------------------------------------
\* gather and scatter within run_step (Spec)
StepDone == Ran /\ obs.err = "none"

\* the state a position outside the input-port blocks holds after a tick:
\* the initial 0 after the first tick, the tick's own stamp afterwards
ModelState == IF obs.tick = 1 THEN 0 ELSE obs.tick

\* one kind's gather: arr is the state array, pm the port data, pi the
\* (1-based, 0 = None) position of the input-port model in n_list, start
\* and num the kind's idx_start and per-model counts, inds the port
\* indices and kind the number the trace gives the kind
GatherFrame(arr, pm, pi, start, num, inds, kind) ==
    /\ Count(obs.trace, Ev("set_inds", kind)) = (IF pi # 0 THEN 1 ELSE 0)
    /\ pi # 0 =>
          /\ Len(inds) = num[pi]
          /\ \A i \in 0..(Len(inds) - 1) : arr[start[pi] + i + 1] = pm[inds[i + 1] + 1]
          /\ \A i \in 1..Len(inds) : pm[inds[i] + 1] \in PortValues
    /\ \A p \in 1..Len(arr) :
          (pi = 0 \/ p \notin Block(start, num, pi)) => arr[p] = ModelState

\* C15: set_inds sets dest[i + shift] = src[inds[i]] for every i and leaves
\* the rest of dest and all of src unchanged; in _read_LPU_input the
\* written range is exactly the packed block of the port-input model, no
\* other neuron's state is changed by the gather, and the gather is
\* skipped for a kind without an input-port model.
C15_GatherWritesPortBlockOnly ==
    StepDone =>
        LET nl == args.n_list
        IN  /\ GatherFrame(self.V, self.pm_gpot, ports_in_gpot_mem_ind(nl),
                           idx_start_gpot(nl), num_gpot_neurons(nl), sel_in_gpot_ids(nl), 0)
            /\ GatherFrame(self.spike_state, self.pm_spike, ports_in_spk_mem_ind(nl),
                           idx_start_spike(nl), num_spike_neurons(nl), sel_in_spk_ids(nl), 1)

\* the first tick of a unit whose graded input-port block follows the
\* block of another graded model, and which has no spiking input port
C15_Witness ==
    /\ StepDone /\ obs.tick = 1
    /\ ports_in_gpot_mem_ind(args.n_list) # 0
    /\ idx_start_gpot(args.n_list)[ports_in_gpot_mem_ind(args.n_list)] > 0
    /\ ports_in_spk_mem_ind(args.n_list) = 0
    /\ total_num_spike_neurons(args.n_list) > 0
    /\ Count(obs.trace, Ev("set_inds", 0)) = 1
    /\ self.V[Len(self.V)] \in PortValues

\* the partition-local packed position of the neuron with ID x
LocalPos(nl, x) ==
    LET i == CHOOSE i \in 1..Len(nl) : x \in Range(nl[i].id)
        k == CHOOSE k \in 1..Len(nl[i].id) : nl[i].id[k] = x
    IN  (IF nl[i].spiking[1] THEN idx_start_spike(nl)[i] ELSE idx_start_gpot(nl)[i]) + k - 1

\* one kind's scatter
ScatterFrame(arr, pm, pub, out_ports_ids, sel_out_ids, n_in, kind) ==
    /\ Count(obs.trace, Ev("extract_projection", kind)) = (IF Len(pub) > 0 THEN 1 ELSE 0)
    /\ Len(out_ports_ids) = Len(pub) /\ Len(sel_out_ids) = Len(pub)
    /\ \A i \in 1..Len(pub) :
          /\ out_ports_ids[i] = LocalPos(args.n_list, pub[i])
          /\ pm[sel_out_ids[i] + 1] = arr[out_ports_ids[i] + 1]
    /\ \A p \in 1..Len(pm) :
          (p - 1) \notin Range(sel_out_ids) => pm[p] \in (IF n_in > 0 THEN PortValues ELSE {0})

\* C16: _extract_output sets port_data[sel_out_ids[i]] = state[out_ports_ids[i]]
\* for every i < num_public, graded and spiking separately, out_ports_ids[i]
\* being the partition-local packed position of the i-th public neuron; it
\* leaves the internal state and the other port entries unchanged and
\* launches no copy for a kind without public neurons.
C16_ScatterCopiesPublicStates ==
    StepDone =>
        LET nl == args.n_list
        IN  /\ ScatterFrame(self.V, self.pm_gpot, out_ids(nl, FALSE), out_ports_ids_gpot(nl),
                            sel_out_gpot_ids(nl), num_in_ports_gpot(nl), 0)
            /\ ScatterFrame(self.spike_state, self.pm_spike, out_ids(nl, TRUE),
                            out_ports_ids_spk(nl), sel_out_spk_ids(nl),
                            num_in_ports_spk(nl), 1)
            /\ \A i \in NeuronObjs :
                  /\ \A p \in Block(idx_start_gpot(nl), num_gpot_neurons(nl), i) :
                        self.V[p] = ModelState
                  /\ \A p \in Block(idx_start_spike(nl), num_spike_neurons(nl), i) :
                        self.spike_state[p] = ModelState

\* a later tick of a unit with two public graded neurons listed out of ID
\* order, a public spiking neuron and a graded input port
C16_Witness ==
    /\ StepDone /\ obs.tick >= 2
    /\ num_public_gpot(args.n_list) >= 1 /\ num_public_spike(args.n_list) >= 1
    /\ num_in_ports_gpot(args.n_list) >= 1
    /\ Count(obs.trace, Ev("extract_projection", 0)) = 1
    /\ Count(obs.trace, Ev("extract_projection", 1)) = 1
    /\ self.pm_gpot[Len(self.pm_gpot)] = obs.tick
    /\ self.pm_gpot[1] \in PortValues

\* ---------------------------------------------------------------------
\* C17: a neuron or synapse model whose name cannot be resolved is logged
\* and left out of self.neurons / self.synapses, and every later run_step
\* and post_run completes without error, evaluating the resolved models.
C17_UnresolvedModelIsSkipped ==
    phase # "constructed" =>
        /\ \A k \in 1..Len(neurons(args.n_list)) : neurons(args.n_list)[k].obj
        /\ \A k \in 1..Len(synapses(args.s_list)) : synapses(args.s_list)[k].obj
        /\ phase # "error"
        /\ obs.err = "none"

\* With every name resolved no call fails for want of a model object.
AllResolved ==
    /\ \A i \in 1..Len(args.n_list) : args.n_list[i].name \in neuron_names \cup {PORT_IN_GPOT, PORT_IN_SPK}
    /\ \A i \in 1..Len(args.s_list) : args.s_list[i].name \in synapse_names \cup {"pass"}
C17_WhenAllResolved ==
    AllResolved => obs.err \notin {"neuron is None", "synapse is None"}

\* ---------------------------------------------------------------------
\* graph_to_dicts (CallSpec, op = "graph_to_dicts")
GraphDone == phase \in {"returned", "raised"} /\ args.op = "graph_to_dicts"
GraphAccepted == phase = "returned" /\ args.op = "graph_to_dicts"

\* the input record of neuron id is public (and no input port)
PublicNode(id) ==
    LET neu == args.graph.node[id]
    IN  ~IsPort(neu["model"]) /\ Has(neu, "public") /\ neu["public"]

\* the selectors of the returned records whose IDs are ids
SelectorOf(nl, id) ==
    LET i == CHOOSE i \in 1..Len(nl) : id \in Range(nl[i].id)
        k == CHOOSE k \in 1..Len(nl[i].id) : nl[i].id[k] = id
    IN  nl[i].selector[k]

OutputsAligned(nl, spk) ==
    /\ Len(out_ids(nl, spk)) = Len(extract_out_sel(nl, spk))
    /\ \A i \in 1..Len(out_ids(nl, spk)) :
          i <= Len(extract_out_sel(nl, spk))
          /\ extract_out_sel(nl, spk)[i] = SelectorOf(nl, out_ids(nl, spk)[i])

\* C18: graph_to_dicts aborts for every record with public = true whose
\* selector is missing or the empty string, so that in an accepted n_dict
\* the public IDs of a kind and the output selectors of that kind are as
\* many and correspond by position; a non-public record without a selector
\* gets selector ''.
C18_PublicNeedsSelector ==
    GraphDone =>
        /\ (\E id \in DOMAIN args.graph.node :
               /\ PublicNode(id)
               /\ (~Has(args.graph.node[id], "selector")
                   \/ args.graph.node[id]["selector"] = ""))
              => phase = "raised"
        /\ phase = "returned" =>
              /\ OutputsAligned(self.ret.n_dict, FALSE)
              /\ OutputsAligned(self.ret.n_dict, TRUE)
              /\ \A id \in DOMAIN args.graph.node :
                    ~Has(args.graph.node[id], "selector")
                        => SelectorOf(self.ret.n_dict, id) = ""

\* A public record whose selector is missing does abort the call.
C18_MissingSelectorAborts ==
    GraphDone =>
        ((\E id \in DOMAIN args.graph.node :
             PublicNode(id) /\ ~Has(args.graph.node[id], "selector"))
            => phase = "raised")

\* the returned records of the input-port models
PortEntries(nl) == {i \in 1..Len(nl) : IsPort(nl[i].name)}

\* C19: a neuron of model port_in_gpot or port_in_spk is never public
\* after graph_to_dicts, whatever public value the input gave it; its ID is
\* in neither list of output IDs, its selector is no output selector, and
\* no model object is instantiated (hence none evaluated) for it.
C19_PortsNeverPublic ==
    GraphAccepted =>
        LET nl == self.ret.n_dict
        IN  /\ \A i \in PortEntries(nl) :
                  /\ \A k \in 1..Len(nl[i].id) :
                        /\ ~nl[i].public[k]
                        /\ nl[i].spiking[k] = (nl[i].name = PORT_IN_SPK)
                        /\ nl[i].id[k] \notin Range(out_ids(nl, FALSE)) \cup Range(out_ids(nl, TRUE))
                        /\ nl[i].selector[k] \notin
                              Range(extract_out_sel(nl, FALSE)) \cup Range(extract_out_sel(nl, TRUE))
                  /\ \A k \in 1..Len(neurons(nl)) : neurons(nl)[k].i # i
            /\ \A id \in DOMAIN args.graph.node :
                  IsPort(args.graph.node[id]["model"]) =>
                      \E i \in PortEntries(nl) : id \in Range(nl[i].id)

\* an accepted graph with an input port that the input marks public and a
\* public neuron beside it
C19_Witness ==
    /\ GraphAccepted
    /\ \E id \in DOMAIN args.graph.node :
          LET neu == args.graph.node[id]
          IN  IsPort(neu["model"]) /\ Has(neu, "public") /\ neu["public"]
              /\ neu["selector"] # ""
    /\ \E id \in DOMAIN args.graph.node : PublicNode(id)
    /\ Len(out_ids(self.ret.n_dict, FALSE)) + Len(out_ids(self.ret.n_dict, TRUE)) = 1
    /\ Len(neurons(self.ret.n_dict)) = 1

\* C20: graph_to_dicts is a pure function of its input: it leaves the node
\* and edge attribute records of the caller's graph unchanged, and two
\* calls on the same graph return equal n_dict and s_dict.
C20_GraphUnchanged ==
    GraphDone =>
        /\ self.ret.graph = args.graph
        /\ graph_to_dicts(self.ret.graph).ok = self.ret.ok
        /\ graph_to_dicts(self.ret.graph).n_dict = self.ret.n_dict
        /\ graph_to_dicts(self.ret.graph).s_dict = self.ret.s_dict

\* The second of two calls on the same graph object does return what the
\* first returned.
C20_SecondCallEqual ==
    GraphDone =>
        /\ graph_to_dicts(self.ret.graph).ok = self.ret.ok
        /\ graph_to_dicts(self.ret.graph).n_dict = self.ret.n_dict
        /\ graph_to_dicts(self.ret.graph).s_dict = self.ret.s_dict

\* ---------------------------------------------------------------------
\* the output stores (Spec)
\* the run_step calls that have returned
StepsDone == IF obs.err = "none" THEN obs.tick ELSE obs.tick - 1

\* the IDs of one kind, ascending
SortedIdsOfKind(nl, spk) == SortedSeq(Range(IF spk THEN spike_idx(nl) ELSE gpot_idx(nl)))

IsPortId(nl, x) == \E i \in 1..Len(nl) : IsPortModel(nl[i].name) /\ x \in Range(nl[i].id)

\* one kind's store: rows is the dataset, file the handle's name, arr the
\* kind's state array
StoreRows(rows, file, arr, spk) ==
    LET nl == args.n_list
        ids == SortedIdsOfKind(nl, spk)
        n == IF spk THEN total_num_spike_neurons(nl) ELSE total_num_gpot_neurons(nl)
    IN  /\ (file \in self.open_files \cup self.closed_files) <=> (args.output /\ n > 0)
        /\ (~args.output \/ n = 0) => rows = <<>>
        /\ (args.output /\ n > 0) =>
              /\ Len(rows) = StepsDone
              /\ Len(ids) = n
              /\ \A r \in 1..Len(rows) :
                    /\ Len(rows[r]) = n
                    /\ \A k \in 1..n :
                          IF IsPortId(nl, ids[k]) THEN rows[r][k] \in PortValues
                          ELSE rows[r][k] = (IF r = 1 THEN 0 ELSE r)
              /\ (StepsDone >= 1 /\ obs.err = "none") =>
                    rows[StepsDone] = [k \in 1..n |-> arr[LocalPos(nl, ids[k]) + 1]]

\* C21: with output enabled every run_step that returns, the first one
\* included, appends one row to the graded store and one to the spiking
\* store (a run_step that raises appends none), so that after n ticks each
\* store has n rows; column k of a row is the state of the neuron with the
\* k-th smallest ID of that kind; a store exists, is written and is closed
\* only for a kind with neurons, and only with output enabled.
C21_OneRowPerTickInIdOrder ==
    phase # "constructed" =>
        /\ StoreRows(self.output_gpot, "output_gpot_file", self.V, FALSE)
        /\ StoreRows(self.output_spike, "output_spike_file", self.spike_state, TRUE)
        /\ (args.output /\ obs.tick >= 1 /\ obs.err = "none") =>
              Count(obs.trace, Ev("write_output", 0)) = 1

\* the third tick of a unit whose graded neurons are packed out of ID
\* order (the input port with ID 2 before the neuron with ID 0)
C21_Witness ==
    /\ StepDone /\ phase = "running" /\ obs.tick = 3 /\ args.output
    /\ gpot_idx(args.n_list) = <<2, 0>>
    /\ Len(self.output_gpot) = 3 /\ Len(self.output_spike) = 3
    /\ self.output_gpot[1][1] = 0 /\ self.output_gpot[3][1] = 3
    /\ self.output_gpot[3][2] \in PortValues
    /\ self.output_spike[3] = <<3>>

\* ---------------------------------------------------------------------
\* C22: after post_run no handle the unit opened in _init_objects is still
\* open: the set of handles opened (external-input file, graded output,
\* spiking output, debug buffer file, debug synapse-state file) equals the
\* set of handles closed.
Opened == self.open_files \cup self.closed_files
C22_EveryHandleClosed ==
    phase = "stopped" =>
        /\ self.open_files = {}
        /\ Opened = self.closed_files

\* The output and debug handles are closed by post_run, each exactly when
\* _init_objects opened it; the external-input file is the only handle
\* that can remain.
C22_OutputAndDebugClosed ==
    /\ phase = "running" =>
          /\ self.closed_files = {}
          /\ self.open_files = OutputFiles(args) \cup DebugFiles(args)
                                  \cup (IF args.input_file THEN {"input_h5file"} ELSE {})
    /\ phase = "stopped" =>
          /\ self.closed_files = OutputFiles(args) \cup DebugFiles(args)
          /\ self.open_files = (IF args.input_file THEN {"input_h5file"} ELSE {})
          /\ (args.output /\ total_num_gpot_neurons(args.n_list) = 0)
                => "output_gpot_file" \notin Opened
          /\ (args.debug /\ total_synapses(args.s_list) + num_input(args.n_list) = 0)
                => "synapse_state_file" \notin Opened

\* ---------------------------------------------------------------------
\* the fan-in tables (CallSpec)
\* the (post, source position) pairs a fan-in table holds
PairSet(posts, pres) == {<<posts[e], pres[e]>> : e \in 1..Len(posts)}

\* the pairs (post, own packed position) of the synapses with conductance
\* flag c: row r of the post-sorted table of model i is packed at
\* idx_start_synapse[i] + r
OwnPairs(sl, tabs, c) ==
    UNION {{<<tabs[i].post[r], idx_start_synapse(sl)[i] + r - 1>> :
               r \in {q \in 1..Len(tabs[i].id) : tabs[i].conductance[q] = c}} :
           i \in 1..Len(tabs)}

\* C23: the source position recorded for a synapse in cond_pre (a
\* conductance synapse) or I_pre (any other) is the synapse's own packed
\* position, idx_start_synapse[model] plus its rank in the post-sorted
\* model, also in and after a model that holds synapses of both sorts.
C23_PreIsOwnPosition ==
    Compiled =>
        LET sl == args.s_list
            tabs == self.ret.tables
        IN  /\ PairSet(self.ret.cond_post, self.ret.cond_pre) = OwnPairs(sl, tabs, TRUE)
            /\ OwnPairs(sl, tabs, FALSE) \subseteq PairSet(self.ret.I_post, self.ret.I_pre)
            /\ Len(self.ret.cond_pre) = Cardinality(OwnPairs(sl, tabs, TRUE))
            /\ Len(self.ret.I_pre)
                  = Cardinality(OwnPairs(sl, tabs, FALSE)) + num_input(args.n_list)

\* The same when no model holds both a conductance synapse and another.
Unmixed(s) == \A j, k \in 1..Len(s.conductance) : s.conductance[j] = s.conductance[k]
C23_WhenNoModelIsMixed ==
    (Compiled /\ \A i \in 1..Len(args.s_list) : Unmixed(args.s_list[i]))
        => C23_PreIsOwnPosition

\* ---------------------------------------------------------------------
\* the synapse ID an entry of a fan-in table targets (posts at or above
\* max_neuron_id + 1 are synapse targets)
TargetsOfModel(nl, posts, t) ==
    {e \in 1..Len(posts) :
        /\ posts[e] >= MaxOf(Range(n_id(nl))) + 1
        /\ (posts[e] - MaxOf(Range(n_id(nl))) - 1) \in Range(t.id)}

\* the table kept for a synapse model holds the entries of the fan-in
\* table (posts, pres) that target the model's own synapses, and no other
KeepsOwnFanIn(nl, posts, pres, t, kept) ==
    LET own == TargetsOfModel(nl, posts, t)
    IN  /\ Len(kept.post) = Cardinality(own)
        /\ Len(kept.pre) = Cardinality(own)
        /\ PairSet(kept.post, kept.pre)
              = {<<posts[e] - MaxOf(Range(n_id(nl))) - 1, pres[e]>> : e \in own}

\* C24: the fan-in entry of a synapse whose post is the synapse with ID k
\* is stored in the cond / I fan-in table of exactly the synapse model
\* that contains synapse k, for every assignment of the synapse IDs to
\* packed positions.
C24_FanInGoesToTargetsModel ==
    Compiled =>
        \A i \in 1..Len(args.s_list) :
            /\ KeepsOwnFanIn(args.n_list, self.ret.cond_post, self.ret.cond_pre,
                             self.ret.tables[i], self.ret.s_cond[i])
            /\ KeepsOwnFanIn(args.n_list, self.ret.I_post, self.ret.I_pre,
                             self.ret.tables[i], self.ret.s_I[i])

\* The same when every synapse's ID is its packed position.
IdIsPosition ==
    LET ids == Concat([i \in 1..Len(self.ret.tables) |-> self.ret.tables[i].id])
    IN  \A k \in 1..Len(ids) : ids[k] = k - 1
C24_WhenIdIsPosition == (Compiled /\ IdIsPosition) => C24_FanInGoesToTargetsModel

\* ---------------------------------------------------------------------
\* the window of the external-input feeder (Spec)
\* the number of frames I_ext.set is handed by a refill that found
\* loaded frames of the source: the frames themselves when they fill the
\* window array, otherwise the frames padded to one_time_import
BlockWritten(loaded) ==
    IF loaded = Len(self.I_ext) THEN loaded ELSE args.one_time_import

\* C25: whenever _read_external_input copies a frame out of the window,
\* the cursor frame_count is smaller than the number of frames the window
\* array I_ext holds, for every source length N >= 1 and window W, N < W
\* included; and every refill writes a block of as many frames as the
\* window array has.
C25_CursorInsideWindow ==
    HasInput =>
        /\ \A k \in Pos(obs.trace, "memcpy_ext") : obs.trace[k].obj < Len(self.I_ext)
        /\ \A k \in Pos(obs.trace, "refill") :
              BlockWritten(obs.trace[k].obj) = Len(self.I_ext)
        /\ obs.err # "I_ext.set"

\* The same for the sources that fill the first window (N >= W).
C25_WhenSourceFillsWindow ==
    (HasInput /\ args.frames >= args.one_time_import) => C25_CursorInsideWindow

\* ---------------------------------------------------------------------
\* the external-input channels (CallSpec)
ExternIds(nl) ==
    UNION {{nl[i].id[k] : k \in {q \in 1..Len(nl[i].id) : nl[i].extern[q]}} :
           i \in 1..Len(nl)}

\* the packed position of the neuron with ID x among all neurons: the
\* graded partition first
PackedPos(nl, x) ==
    LET i == CHOOSE i \in 1..Len(nl) : x \in Range(nl[i].id)
    IN  LocalPos(nl, x) + (IF nl[i].spiking[1] THEN total_num_gpot_neurons(nl) ELSE 0)

Injected == phase # "called" /\ args.op = "read_external_input"

\* C26: external-input channel j is kept in slot total_synapses + j of
\* synapse_state and is wired as a current input, I_pre = total_synapses
\* + j, to the extern neuron with the j-th smallest ID; an injection
\* writes the slots total_synapses .. total_synapses + num_input - 1 only
\* and leaves the slots 0 .. total_synapses - 1 as they were.
C26_ExternalChannelSlots ==
    /\ Compiled =>
          LET nl == args.n_list
              ts == Len(Concat([i \in 1..Len(args.s_list) |-> args.s_list[i].id]))
              in_id == SortedSeq(ExternIds(nl))
          IN  \A j \in 0..(Len(in_id) - 1) :
                  <<PackedPos(nl, in_id[j + 1]), ts + j>>
                      \in PairSet(self.ret.I_post, self.ret.I_pre)
    /\ Injected =>
          LET a == args.a
              ts == Len(Concat([i \in 1..Len(a.s_list) |-> a.s_list[i].id]))
              ni == Cardinality(ExternIds(a.n_list))
              before == args.s.synapse_state
              after == self.ret.s.synapse_state
              frame == args.s.frame_count + 1
          IN  /\ Len(after) = Len(before)
              /\ Len(after) >= ts + ni
              /\ \A p \in 1..Len(after) :
                    IF (p - 1) \in ts..(ts + ni - 1)
                    THEN after[p] = 10 * frame + (p - 1 - ts)
                    ELSE after[p] = before[p]
              /\ Ev("memcpy_ext", args.s.frame_count) \in Range(self.ret.o.trace)

\* the second frame injected into a unit with two synapses and three
\* external-input channels
C26_Witness ==
    /\ phase = "returned" /\ args.op = "read_external_input"
    /\ args.s.synapse_state = <<101, 102, 103, 104, 105>>
    /\ args.s.frame_count = 1
    /\ self.ret.s.synapse_state = <<101, 102, 20, 21, 22>>
    /\ input_neuron_list(args.a.n_list) = <<0, 2, 1>>

\* ---------------------------------------------------------------------
\* C27: every frame the feeder injects is in the input segment of
\* synapse_state during a neuron model update before the next frame
\* overwrites it: no frame, frame 0 of the first tick in particular, is
\* consumed in a tick that evaluates no model.
C27_InjectedFrameReachesModels ==
    (HasInput /\ Ran /\ obs.err = "none") =>
        \A k \in Pos(obs.trace, "memcpy_ext") :
            \E q \in Pos(obs.trace, "update_I") : k < q

\* From the second tick on the frame injected in a tick is followed, in
\* that tick, by the update of every neuron object.
C27_AfterTheFirstTick ==
    (HasInput /\ Ran /\ obs.err = "none" /\ obs.tick >= 2) =>
        \A k \in Pos(obs.trace, "memcpy_ext") :
            /\ NeuronObjs # {}
            /\ \A i \in NeuronObjs :
                  \E q \in 1..Len(obs.trace) : k < q /\ obs.trace[q] = Ev("update_I", i)

====
